---- MODULE Spec2Model ----
(***************************************************************************)
(* State-management core of the file-state backend                         *)
(* (pkg/backend/filestate/backend.go): the advisory lock that guards a     *)
(* stack, the checkpoint / backup / history objects of the bucket, and the *)
(* operations of localBackend that read and write them.                    *)
(*                                                                         *)
(* Every backend instance (one per process) is a sequential program; the   *)
(* bucket is shared.  An operation is cut into steps at its bucket I/O:    *)
(* each step below is one bucket operation together with the local code    *)
(* that follows it up to the next one.                                     *)
(*                                                                         *)
(* Lock, Unlock, saveCheckpoint, backupTarget, backupStack, addToHistory   *)
(* and the drivers PreviewThenPromptThenExecute / Watch live in files that *)
(* are not part of the sources at hand; they are modelled from the         *)
(* specification (sections 4.1, 4.3, 4.4, 5) and marked so in the map.     *)
(***************************************************************************)
EXTENDS Integers, Sequences, FiniteSets, TLC

\* ---- bounds of the model ------------------------------------------------
NumProcs == 2        \* worker backend instances (processes) sharing the bucket
NumStacks == 2       \* stack references
MaxSaves == 3        \* checkpoints the engine / importers may produce in a run
MaxHist == 2         \* history records appended in a run
MaxBackups == 2      \* backups in a directory when an operation may still start
MaxSavesLock == 1
MaxHistLock == 1
MaxBackupsLock == 1
MaxRes == 1          \* resources a checkpoint may list (0 = empty snapshot)
NumProjects == 1     \* projects the resource URNs of a checkpoint may name

\* Backend instances: the workers run stack operations; one more backend is
\* the one an operator runs "cancel" from.
Workers == 1..NumProcs
Operator == NumProcs + 1
Procs == 1..(NumProcs + 1)
Stacks == 1..NumStacks
Projects == 1..NumProjects

\* Stack references.  The references 1..NumStacks are the ones without a
\* project (the legacy layout; project 0 is the blank project); the reference
\* of stack name n in project j is the one newReference(j, n) gives.
Refs == 1..(NumStacks * (NumProjects + 1))
NewReference(project, name) == project * NumStacks + name
NameOf(ref) == ((ref - 1) % NumStacks) + 1
ProjectOf(ref) == (ref - 1) \div NumStacks

\* The stack the workers contend for in the scenarios below; the other
\* stacks are destinations of a rename.
Contended == {1}

\* A checkpoint object: id identifies the content written, res is the
\* number of resources its snapshot lists, name and project are the stack
\* name and the project their URNs carry (project 0 when there is no
\* resource).  NoChk is "no object at the path".
NoChk == [id |-> 0, res |-> 0, name |-> 0, project |-> 0]

\* The checkpoint with content id and r resources of project j, made for
\* the stack reference s.
NewChk(id, r, s, j) ==
    [id |-> id, res |-> r, name |-> NameOf(s), project |-> IF r > 0 THEN j ELSE 0]

\* edit.RenameStack(snap, newName, ""): the URNs of the snapshot carry the
\* new stack name, the project is kept.
RenameURNs(c, newName) == [c EXCEPT !.name = newName]

VARIABLES
    lockID,     \* lockID[p]: the lock id allocated by New for backend p
    locks,      \* locks[s]: s's lock directory, a set of markers <<key, creator>>
    live,       \* live[s]: the checkpoint object at s's stack path, NoChk if none
    backups,    \* backups[s]: the objects of s's backup directory, oldest first
    history,    \* history[s]: the objects of s's history directory, oldest first
    pc,         \* pc[p]: position of backend p in its current operation
    cur,        \* cur[p]: arguments and locals of p's current operation
    ret,        \* ret[p]: p's last operation and what it returned, NoRet while one runs
    saved,      \* saved[s]: the checkpoints successfully written live to s, in order
    nextId,     \* next fresh checkpoint id
    lim,        \* lim.saves, lim.hist, lim.backups: the extent of a run
    store,      \* store[p]: the reference store backend p has active
    meta,       \* the version of the layout manifest (Pulumi.yaml) in the bucket
    mutex,      \* mutex[p]: the state of backend p's sync.Mutex field
    parsed,     \* parsed[p]: the store the last ParseStackReference on p went through
    currentProject, \* currentProject[p]: the project New was given, 0 for none
    rendered,   \* rendered[p]: the last rendering of a reference asked of backend p
    configs,    \* configs[f]: the secrets fields of the per-stack configuration file f
    mgr,        \* the outcome of the last construction of a secrets manager
    decrypted,  \* the outcome of the last call of the service crypter
    task,       \* where apply and the tasks it spawns stand, and the event in hand
    chans,      \* which of the channels apply makes are closed
    stream,     \* the events emitted by the engine, shown by the display, heard by the caller
    scope,      \* the cancellation scope of the operation and the caller's channel
    fault       \* run-time panics of the channel operations

\* The state that only the operations outside the stack-mutation core touch
\* (reads of the store, name rendering, the secrets layer, the event tasks
\* of apply); the stack operations leave it alone.
\* The tasks and channels of one apply.
streams == <<task, chans, stream, scope, fault>>

aside == <<mutex, parsed, currentProject, rendered, configs, mgr, decrypted, streams>>

vars == <<lockID, locks, live, backups, history, pc, cur, ret, saved, nextId, lim,
          store, meta, aside>>

\* Everything but the tasks and channels of apply.
beside == <<mutex, parsed, currentProject, rendered, configs, mgr, decrypted,
            lockID, locks, live, backups, history, pc, cur, ret, saved, nextId, lim,
            store, meta>>

bucket == <<locks, live, backups, history>>

\* ---- helpers --------------------------------------------------------------

Range(f) == {f[i] : i \in DOMAIN f}

\* Locals of an operation that has not started.
Blank == [op |-> "none", stack |-> 0, dst |-> 0, kind |-> "none",
          dryRun |-> FALSE, force |-> FALSE, locked |-> FALSE, res |-> "ok",
          target |-> 0, after |-> "none", chk |-> NoChk, wErr |-> FALSE,
          listed |-> <<>>, all |-> {}, updateErr |-> FALSE, saveErr |-> FALSE]

\* What the caller has in hand while an operation runs.
NoRet == [op |-> "none", r |-> "none"]

\* The keys present in s's lock directory.
Markers(s) == {m[1] : m \in locks[s]}

\* bucket.WriteAll of a marker: the object at key k is created or replaced.
WriteMarker(s, k, p) ==
    [locks EXCEPT ![s] = {m \in @ : m[1] # k} \cup {<<k, p>>}]

\* bucket.Delete of a marker: the object at key k is gone.
DeleteMarker(s, k) ==
    [locks EXCEPT ![s] = {m \in @ : m[1] # k}]

\* listBucket: keys in the lexical order of a bucket listing.
RECURSIVE SortedSeq(_)
SortedSeq(S) ==
    IF S = {} THEN <<>>
    ELSE LET m == CHOOSE x \in S : \A y \in S : x <= y
         IN <<m>> \o SortedSeq(S \ {m})

\* A function return that runs no deferred call: back to the caller, idle.
Return(p, r) ==
    /\ pc' = [pc EXCEPT ![p] = "idle"]
    /\ ret' = [ret EXCEPT ![p] = [op |-> cur[p].op, r |-> r]]
    /\ cur' = [cur EXCEPT ![p] = Blank]

\* Variant of Exit: the return of an operation that forgot the defer.
ExitNoDefer(p, r) == Return(p, r)

\* A function return with "defer b.Unlock(ctx, stackRef)" pending: the
\* deferred call runs next, then the caller sees r.
Exit(p, r) ==
    /\ pc' = [pc EXCEPT ![p] = "unlock"]
    /\ cur' = [cur EXCEPT ![p].res = r]
    /\ UNCHANGED ret

\* ---- New: the lock id of a backend instance (backend.go 216-232) ----------

\* Variant of NewLockID: every backend instance is given the same id.
NewLockIDShared(p) == Operator

\* uuid.NewV4(): an id no other backend instance has.
NewLockID(p) == p

\* ---- saveCheckpoint / saveStack (specification 4.4) ------------------------
\* "serialize and write, after first copying the existing object at that path
\* to a timestamped backup path (skipped if no prior object exists)".

\* The call: remember what to write where, and where to continue.
StartSave(p, s, c, after) ==
    /\ pc' = [pc EXCEPT ![p] = "save_backup"]
    /\ cur' = [cur EXCEPT ![p].target = s, ![p].chk = c, ![p].after = after,
                          ![p].wErr = FALSE]

\* Copy the existing object to the backup directory.
SaveBackup(p) ==
    /\ pc[p] = "save_backup"
    /\ LET s == cur[p].target IN
         backups' = IF live[s] # NoChk
                    THEN [backups EXCEPT ![s] = Append(@, live[s])]
                    ELSE backups
    /\ pc' = [pc EXCEPT ![p] = "save_write"]
    /\ UNCHANGED <<aside, lockID, store, meta, locks, live, history, cur, ret, saved, nextId, lim>>

\* WriteAll of the new object: it replaces the object or fails and leaves it.
SaveWrite(p) ==
    /\ pc[p] = "save_write"
    /\ \E ok \in BOOLEAN :
         LET s == cur[p].target IN
         /\ live' = IF ok THEN [live EXCEPT ![s] = cur[p].chk] ELSE live
         /\ saved' = IF ok THEN [saved EXCEPT ![s] = Append(@, cur[p].chk)] ELSE saved
         /\ cur' = [cur EXCEPT ![p].wErr = ~ok]
    /\ pc' = [pc EXCEPT ![p] = cur[p].after]
    /\ UNCHANGED <<aside, lockID, store, meta, locks, backups, history, ret, nextId, lim>>

\* backupTarget(bucket, file, keepOriginal = false): copy the object to the
\* backup directory and remove the original.
BackupTargetLive(s) == [live EXCEPT ![s] = NoChk]
BackupTargetBackups(s) ==
    IF live[s] # NoChk THEN [backups EXCEPT ![s] = Append(@, live[s])] ELSE backups

\* ---- Lock / Unlock (specification 4.3) -------------------------------------
\* The bucket has no compare-and-set (4.1): the write "conditional on the
\* directory being empty" is a listing, the write of the marker, and a second
\* listing that takes the marker back when another one has appeared.

\* "err = b.Lock(...); if err != nil { return err }; defer b.Unlock(...)":
\* the code every lock-guarded operation starts with.
FirstStep(op) ==
    CASE op = "CreateStack" -> "create_get"
      [] op = "RemoveStack" -> "remove_get"
      [] op = "RenameStack" -> "rename_get"
      [] op = "ImportDeployment" -> "import_save"
      [] op = "Upgrade" -> "rename_get"
      [] OTHER -> "ptpe"

\* Variant of LockGuard: the error of Lock is dropped and the body runs.
LockGuardIgnoreErr(p, err) ==
    /\ pc' = [pc EXCEPT ![p] = FirstStep(cur[p].op)]
    /\ cur' = [cur EXCEPT ![p].locked = TRUE]
    /\ UNCHANGED ret

\* Variant of LockGuard: the error of Lock ends the operation, which then
\* reports success.
LockGuardSwallow(p, err) ==
    IF err
    THEN Return(p, "ok")
    ELSE /\ pc' = [pc EXCEPT ![p] = FirstStep(cur[p].op)]
         /\ cur' = [cur EXCEPT ![p].locked = TRUE]
         /\ UNCHANGED ret

LockGuard(p, err) ==
    IF err
    THEN Return(p, "Locked")
    ELSE /\ pc' = [pc EXCEPT ![p] = FirstStep(cur[p].op)]
         /\ cur' = [cur EXCEPT ![p].locked = TRUE]
         /\ UNCHANGED ret

LockCheck(p) ==
    /\ pc[p] = "lock_check"
    /\ IF Markers(cur[p].stack) # {}
       THEN LockGuard(p, TRUE)
       ELSE /\ pc' = [pc EXCEPT ![p] = "lock_write"]
            /\ UNCHANGED <<cur, ret>>
    /\ UNCHANGED <<aside, lockID, store, meta, bucket, saved, nextId, lim>>

LockWrite(p) ==
    /\ pc[p] = "lock_write"
    /\ locks' = WriteMarker(cur[p].stack, lockID[p], p)
    /\ pc' = [pc EXCEPT ![p] = "lock_verify"]
    /\ UNCHANGED <<aside, lockID, store, meta, live, backups, history, cur, ret, saved,
                   nextId, lim>>

LockVerify(p) ==
    /\ pc[p] = "lock_verify"
    /\ IF Markers(cur[p].stack) \ {lockID[p]} # {}
       THEN /\ pc' = [pc EXCEPT ![p] = "lock_undo"]
            /\ UNCHANGED <<cur, ret>>
       ELSE LockGuard(p, FALSE)
    /\ UNCHANGED <<aside, lockID, store, meta, bucket, saved, nextId, lim>>

LockUndo(p) ==
    /\ pc[p] = "lock_undo"
    /\ locks' = DeleteMarker(cur[p].stack, lockID[p])
    /\ LockGuard(p, TRUE)
    /\ UNCHANGED <<aside, lockID, store, meta, live, backups, history, saved, nextId, lim>>

\* renameStack returns to its caller: RenameStack hands the result on;
\* Upgrade returns the error of a failed rename ("upgrade stack %v to %v")
\* and goes on to the next old reference after a successful one.
RenameReturn(p) ==
    IF cur[p].op = "Upgrade" /\ cur[p].res = "ok"
    THEN /\ pc' = [pc EXCEPT ![p] = "upgrade_loop"]
         /\ cur' = [cur EXCEPT ![p].locked = FALSE,
                               ![p].all = @ \cup {<<cur[p].stack, cur[p].dst>>}]
         /\ UNCHANGED ret
    ELSE Return(p, cur[p].res)

\* Unlock, as the deferred call of a lock-guarded operation: delete the
\* marker named by this backend's lock id, then return to the caller.
Unlock(p) ==
    /\ pc[p] = "unlock"
    /\ locks' = DeleteMarker(cur[p].stack, lockID[p])
    /\ RenameReturn(p)
    /\ UNCHANGED <<aside, lockID, store, meta, live, backups, history, saved, nextId, lim>>

\* p has returned successfully from Lock on s and has not yet called Unlock.
Holds(p, s) == cur[p].locked /\ cur[p].stack = s

\* A run starts an operation that writes backups of a stack only while its
\* backup directory is short.
BackupBudget(s) == Len(backups[s]) < lim.backups

\* ---- the calls -------------------------------------------------------------

\* A lock-guarded operation begins with Lock on its stack reference.
Call(p, c) ==
    /\ pc[p] = "idle"
    /\ pc' = [pc EXCEPT ![p] = "lock_check"]
    /\ cur' = [cur EXCEPT ![p] = c]
    /\ ret' = [ret EXCEPT ![p] = NoRet]
    /\ UNCHANGED <<aside, lockID, store, meta, bucket, saved, nextId, lim>>

\* An operation that takes no lock begins with apply.
CallApply(p, c) ==
    /\ pc[p] = "idle"
    /\ pc' = [pc EXCEPT ![p] = "apply"]
    /\ cur' = [cur EXCEPT ![p] = c]
    /\ ret' = [ret EXCEPT ![p] = NoRet]
    /\ UNCHANGED <<aside, lockID, store, meta, bucket, saved, nextId, lim>>

\* ---- CreateStack (backend.go 476-520) --------------------------------------

CreateStack(p, s) ==
    /\ BackupBudget(s)
    /\ Call(p, [Blank EXCEPT !.op = "CreateStack", !.stack = s])

\* "if _, _, err := b.getStack(...); err == nil { return StackAlreadyExists }"
\* then saveStack(ref, nil, nil).  readErr: the read fails with an error
\* that is not NotFound.
CreateStackGet(p) ==
    /\ pc[p] = "create_get"
    /\ \E readErr \in BOOLEAN :
         LET s == cur[p].stack IN
         IF live[s] # NoChk /\ ~readErr
         THEN /\ Exit(p, "AlreadyExists")
              /\ UNCHANGED nextId
         ELSE /\ nextId <= lim.saves
              /\ StartSave(p, s, NewChk(nextId, 0, s, 0), "create_done")
              /\ nextId' = nextId + 1
              /\ UNCHANGED ret
    /\ UNCHANGED <<aside, lockID, store, meta, bucket, saved, lim>>

CreateStackDone(p) ==
    /\ pc[p] = "create_done"
    /\ Exit(p, IF cur[p].wErr THEN "WriteError" ELSE "ok")
    /\ UNCHANGED <<aside, lockID, store, meta, bucket, saved, nextId, lim>>

\* ---- RemoveStack (backend.go 563-586) --------------------------------------

RemoveStack(p, s, force) ==
    /\ BackupBudget(s)
    /\ Call(p, [Blank EXCEPT !.op = "RemoveStack", !.stack = s, !.force = force])

\* Variant of RemoveStackGet: the resources of the snapshot are not looked at.
RemoveStackGetNoGuard(p) ==
    /\ pc[p] = "remove_get"
    /\ IF live[cur[p].stack] = NoChk
       THEN Exit(p, "NotFound")
       ELSE /\ pc' = [pc EXCEPT ![p] = "remove_do"]
            /\ UNCHANGED <<cur, ret>>
    /\ UNCHANGED <<aside, lockID, store, meta, bucket, saved, nextId, lim>>

\* getStack, then the guard on the snapshot's resources.
RemoveStackGet(p) ==
    /\ pc[p] = "remove_get"
    /\ LET s == cur[p].stack IN
       IF live[s] = NoChk
       THEN Exit(p, "NotFound")
       ELSE IF ~cur[p].force /\ live[s].res > 0
            THEN Exit(p, "Refusing")
            ELSE /\ pc' = [pc EXCEPT ![p] = "remove_do"]
                 /\ UNCHANGED <<cur, ret>>
    /\ UNCHANGED <<aside, lockID, store, meta, bucket, saved, nextId, lim>>

\* Variant of RemoveStackDo: the checkpoint object is deleted, no backup made.
RemoveStackDoHardDelete(p) ==
    /\ pc[p] = "remove_do"
    /\ live' = BackupTargetLive(cur[p].stack)
    /\ Exit(p, "ok")
    /\ UNCHANGED <<aside, lockID, store, meta, locks, backups, history, saved, nextId, lim>>

\* "return false, b.removeStack(localStackRef)".  removeStack: the
\* checkpoint object is backed up, not hard-deleted; its error is returned.
RemoveStackDo(p) ==
    /\ pc[p] = "remove_do"
    /\ \E ok \in BOOLEAN :
         LET s == cur[p].stack IN
         IF ok
         THEN /\ backups' = BackupTargetBackups(s)
              /\ live' = BackupTargetLive(s)
              /\ Exit(p, "ok")
         ELSE /\ Exit(p, "RemoveError")
              /\ UNCHANGED <<live, backups>>
    /\ UNCHANGED <<aside, lockID, store, meta, locks, history, saved, nextId, lim>>

\* ---- RenameStack / renameStack (backend.go 588-655) ------------------------

RenameStack(p, old, new) ==
    /\ old # new
    /\ BackupBudget(old)
    /\ Call(p, [Blank EXCEPT !.op = "RenameStack", !.stack = old, !.dst = new])

\* getStack(oldRef)
RenameStackGet(p) ==
    /\ pc[p] = "rename_get"
    /\ LET s == cur[p].stack IN
       IF live[s] = NoChk
       THEN Exit(p, "NotFound")
       ELSE /\ pc' = [pc EXCEPT ![p] = "rename_exists"]
            /\ cur' = [cur EXCEPT ![p].chk = live[s]]
            /\ UNCHANGED ret
    /\ UNCHANGED <<aside, lockID, store, meta, bucket, saved, nextId, lim>>

\* Variant of RenameStackExists: an existing destination is overwritten.
RenameStackExistsOverwrite(p) ==
    /\ pc[p] = "rename_exists"
    /\ StartSave(p, cur[p].dst, RenameURNs(cur[p].chk, NameOf(cur[p].dst)),
                 "rename_backup")
    /\ UNCHANGED <<aside, lockID, store, meta, bucket, ret, saved, nextId, lim>>

\* bucket.Exists(stackPath(newRef)), edit.RenameStack(snap, newRef.name, ""),
\* then saveStack(newRef, snap, nil)
RenameStackExists(p) ==
    /\ pc[p] = "rename_exists"
    /\ IF live[cur[p].dst] # NoChk
       THEN Exit(p, "AlreadyExists")
       ELSE /\ StartSave(p, cur[p].dst, RenameURNs(cur[p].chk, NameOf(cur[p].dst)),
                         "rename_backup")
            /\ UNCHANGED ret
    /\ UNCHANGED <<aside, lockID, store, meta, bucket, saved, nextId, lim>>

\* Variant of RenameStackBackup: the old checkpoint is deleted, not backed up.
RenameStackBackupNoCopy(p) ==
    /\ pc[p] = "rename_backup"
    /\ IF cur[p].wErr
       THEN /\ Exit(p, "WriteError")
            /\ UNCHANGED <<live, backups>>
       ELSE /\ live' = BackupTargetLive(cur[p].stack)
            /\ pc' = [pc EXCEPT ![p] = "rename_history"]
            /\ UNCHANGED <<backups, cur, ret>>
    /\ UNCHANGED <<aside, lockID, store, meta, locks, history, saved, nextId, lim>>

\* Variant of RenameStackBackup: the old checkpoint is backed up and kept
\* (keepOriginal true).
RenameStackBackupKeep(p) ==
    /\ pc[p] = "rename_backup"
    /\ IF cur[p].wErr
       THEN /\ Exit(p, "WriteError")
            /\ UNCHANGED <<live, backups>>
       ELSE /\ backups' = BackupTargetBackups(cur[p].stack)
            /\ pc' = [pc EXCEPT ![p] = "rename_history"]
            /\ UNCHANGED <<live, cur, ret>>
    /\ UNCHANGED <<aside, lockID, store, meta, locks, history, saved, nextId, lim>>

\* backupTarget(b.bucket, stackPath(oldRef), false)
RenameStackBackup(p) ==
    /\ pc[p] = "rename_backup"
    /\ IF cur[p].wErr
       THEN /\ Exit(p, "WriteError")
            /\ UNCHANGED <<live, backups>>
       ELSE /\ backups' = BackupTargetBackups(cur[p].stack)
            /\ live' = BackupTargetLive(cur[p].stack)
            /\ pc' = [pc EXCEPT ![p] = "rename_history"]
            /\ UNCHANGED <<cur, ret>>
    /\ UNCHANGED <<aside, lockID, store, meta, locks, history, saved, nextId, lim>>

\* Variant of RenameStackHistory: the history directory stays where it is.
RenameStackHistoryStays(p) ==
    /\ pc[p] = "rename_history"
    /\ Exit(p, "ok")
    /\ UNCHANGED <<aside, lockID, store, meta, bucket, saved, nextId, lim>>

\* renameHistory(oldRef, newRef)
RenameStackHistory(p) ==
    /\ pc[p] = "rename_history"
    /\ LET old == cur[p].stack
           new == cur[p].dst
       IN history' = [history EXCEPT ![new] = @ \o history[old], ![old] = <<>>]
    /\ Exit(p, "ok")
    /\ UNCHANGED <<aside, lockID, store, meta, locks, live, backups, saved, nextId, lim>>

\* ---- ImportDeployment (backend.go 1011-1033) -------------------------------

ImportDeployment(p, s) ==
    /\ BackupBudget(s)
    /\ Call(p, [Blank EXCEPT !.op = "ImportDeployment", !.stack = s])

\* Variant of ImportDeploymentSave: the checkpoint is written straight to the
\* stack path, not through saveCheckpoint.
ImportDeploymentSaveDirect(p) ==
    /\ pc[p] = "import_save"
    /\ \E marshalled \in BOOLEAN :
         IF ~marshalled
         THEN /\ Exit(p, "MarshalError")
              /\ UNCHANGED nextId
         ELSE \E r \in 0..MaxRes, j \in Projects :
                /\ nextId <= lim.saves
                /\ pc' = [pc EXCEPT ![p] = "save_write"]
                /\ cur' = [cur EXCEPT ![p].target = cur[p].stack,
                                      ![p].chk = NewChk(nextId, r, cur[p].stack, j),
                                      ![p].after = "import_done", ![p].wErr = FALSE]
                /\ nextId' = nextId + 1
                /\ UNCHANGED ret
    /\ UNCHANGED <<aside, lockID, store, meta, bucket, saved, lim>>

\* MarshalUntypedDeploymentToVersionedCheckpoint, then saveCheckpoint.
\* The deployment imported is any checkpoint content (r resources).
ImportDeploymentSave(p) ==
    /\ pc[p] = "import_save"
    /\ \E marshalled \in BOOLEAN :
         IF ~marshalled
         THEN /\ Exit(p, "MarshalError")
              /\ UNCHANGED nextId
         ELSE \E r \in 0..MaxRes, j \in Projects :
                /\ nextId <= lim.saves
                /\ StartSave(p, cur[p].stack, NewChk(nextId, r, cur[p].stack, j),
                             "import_done")
                /\ nextId' = nextId + 1
                /\ UNCHANGED ret
    /\ UNCHANGED <<aside, lockID, store, meta, bucket, saved, lim>>

ImportDeploymentDone(p) ==
    /\ pc[p] = "import_done"
    /\ Exit(p, IF cur[p].wErr THEN "WriteError" ELSE "ok")
    /\ UNCHANGED <<aside, lockID, store, meta, bucket, saved, nextId, lim>>

\* ---- apply (backend.go 750-921) --------------------------------------------

\* The engine is told to run dry for a preview, otherwise as opts.DryRun says
\* (the switch on kind, 821-834).
EngineDryRun(kind, dryRun) == IF kind = "preview" THEN TRUE ELSE dryRun

\* Variant of SavesResults: the results are saved whatever DryRun is.
SavesResultsAlways(dryRun) == TRUE

\* "if !opts.DryRun { saveErr = addToHistory; backupErr = backupStack }"
SavesResults(dryRun) == ~dryRun

\* Variant of RankErr: the error of the history append ranks first.
RankErrSaveFirst(updateErr, saveErr, backupErr) ==
    IF saveErr THEN "SavingUpdateInfo"
    ELSE IF updateErr THEN "UpdateError"
    ELSE IF backupErr THEN "SavingBackup"
    ELSE "ok"

\* The ranking of the three errors (873-885, 920).
RankErr(updateErr, saveErr, backupErr) ==
    IF updateErr THEN "UpdateError"
    ELSE IF saveErr THEN "SavingUpdateInfo"
    ELSE IF backupErr THEN "SavingBackup"
    ELSE "ok"

\* apply returns r to its caller: Preview and Watch hand it on; under
\* PreviewThenPromptThenExecute a preview that succeeded is followed, when
\* the user confirms, by the same apply with DryRun false.
ApplyReturn(p, r) ==
    IF cur[p].op \in {"Preview", "Watch"}
    THEN Return(p, r)
    ELSE IF cur[p].after = "preview" /\ r = "ok"
         THEN \/ Exit(p, "Declined")
              \/ /\ pc' = [pc EXCEPT ![p] = "apply"]
                 /\ cur' = [cur EXCEPT ![p].dryRun = FALSE, ![p].after = "execute",
                                       ![p].updateErr = FALSE, ![p].saveErr = FALSE]
                 /\ UNCHANGED ret
         ELSE Exit(p, r)

\* getReference and newUpdate (755-778): the update starts or apply returns.
ApplyStart(p) ==
    /\ pc[p] = "apply"
    /\ \E started \in BOOLEAN :
         IF started
         THEN /\ pc' = [pc EXCEPT ![p] = "engine"]
              /\ UNCHANGED <<cur, ret>>
         ELSE ApplyReturn(p, "NewUpdateError")
    /\ UNCHANGED <<aside, lockID, store, meta, bucket, saved, nextId, lim>>

\* The engine, while it runs, has the snapshot persister save new
\* checkpoints of the stack; a dry run saves none.
EngineSave(p) ==
    /\ pc[p] = "engine"
    /\ ~EngineDryRun(cur[p].kind, cur[p].dryRun)
    /\ nextId <= lim.saves
    /\ \E r \in 0..MaxRes, j \in Projects :
         StartSave(p, cur[p].stack, NewChk(nextId, r, cur[p].stack, j), "engine")
    /\ nextId' = nextId + 1
    /\ UNCHANGED <<aside, lockID, store, meta, bucket, ret, saved, lim>>

\* engine.Update / Import / Refresh / Destroy return (821-835); the event
\* goroutines are joined (837-845).
EngineReturn(p) ==
    /\ pc[p] = "engine"
    /\ \E failed \in BOOLEAN :
         cur' = [cur EXCEPT ![p].updateErr = failed]
    /\ pc' = [pc EXCEPT ![p] = "apply_history"]
    /\ UNCHANGED <<aside, lockID, store, meta, bucket, ret, saved, nextId, lim>>

\* The update record of this apply (847-864).
UpdateInfo(p) ==
    [kind |-> cur[p].kind,
     result |-> IF cur[p].updateErr THEN "failed" ELSE "succeeded"]

\* "saveErr = b.addToHistory(localStackRef, info)" (866-869); a dry run
\* skips it and the backup and returns at once.
ApplyAddToHistory(p) ==
    /\ pc[p] = "apply_history"
    /\ IF SavesResults(cur[p].dryRun)
       THEN /\ \E ok \in BOOLEAN :
                 /\ history' = IF ok
                               THEN [history EXCEPT ![cur[p].stack] = Append(@, UpdateInfo(p))]
                               ELSE history
                 /\ cur' = [cur EXCEPT ![p].saveErr = ~ok]
            /\ pc' = [pc EXCEPT ![p] = "apply_backup"]
            /\ UNCHANGED ret
       ELSE /\ ApplyReturn(p, RankErr(cur[p].updateErr, FALSE, FALSE))
            /\ UNCHANGED history
    /\ UNCHANGED <<aside, lockID, store, meta, locks, live, backups, saved, nextId, lim>>

\* "backupErr = b.backupStack(localStackRef)" (870), then the return.
\* backupStack copies the stack's checkpoint object to the backup directory;
\* it fails when the object cannot be read or the copy cannot be written.
ApplyBackupStack(p) ==
    /\ pc[p] = "apply_backup"
    /\ \E ok \in BOOLEAN :
         LET s == cur[p].stack
             done == ok /\ live[s] # NoChk
         IN /\ backups' = IF done THEN [backups EXCEPT ![s] = Append(@, live[s])]
                          ELSE backups
            /\ ApplyReturn(p, RankErr(cur[p].updateErr, cur[p].saveErr, ~done))
    /\ UNCHANGED <<aside, lockID, store, meta, locks, live, history, saved, nextId, lim>>

\* ---- Update, Import, Refresh, Destroy (backend.go 690-737) -----------------

\* A run starts an update of a stack only while its history and backup
\* directories are short.
HistoryBudget(s) == Len(history[s]) < lim.hist /\ Len(backups[s]) < lim.backups

Update(p, s) ==
    /\ HistoryBudget(s)
    /\ Call(p, [Blank EXCEPT !.op = "Update", !.stack = s, !.kind = "update"])

Import(p, s) ==
    /\ HistoryBudget(s)
    /\ Call(p, [Blank EXCEPT !.op = "Import", !.stack = s, !.kind = "import"])

Refresh(p, s) ==
    /\ HistoryBudget(s)
    /\ Call(p, [Blank EXCEPT !.op = "Refresh", !.stack = s, !.kind = "refresh"])

Destroy(p, s) ==
    /\ HistoryBudget(s)
    /\ Call(p, [Blank EXCEPT !.op = "Destroy", !.stack = s, !.kind = "destroy"])

\* backend.PreviewThenPromptThenExecute(ctx, kind, stack, op, b.apply): a
\* preview (apply with DryRun true) unless it is skipped, then the update
\* itself (apply with DryRun false).
PreviewThenPromptThenExecute(p) ==
    /\ pc[p] = "ptpe"
    /\ \E skipPreview \in BOOLEAN :
         cur' = [cur EXCEPT ![p].dryRun = ~skipPreview,
                            ![p].after = IF skipPreview THEN "execute" ELSE "preview"]
    /\ pc' = [pc EXCEPT ![p] = "apply"]
    /\ UNCHANGED <<aside, lockID, store, meta, bucket, ret, saved, nextId, lim>>

\* ---- Preview (backend.go 679-688) and Watch (backend.go 743-747) -----------

Preview(p, s) ==
    CallApply(p, [Blank EXCEPT !.op = "Preview", !.stack = s, !.kind = "preview",
                               !.dryRun = TRUE])

\* backend.Watch(ctx, ..., b.apply, paths): on every change of the watched
\* paths, apply(UpdateUpdate) with DryRun false.
Watch(p, s) ==
    /\ HistoryBudget(s)
    /\ CallApply(p, [Blank EXCEPT !.op = "Watch", !.stack = s, !.kind = "update",
                               !.dryRun = FALSE])

\* ---- CancelCurrentUpdate (backend.go 1096-1123) ----------------------------

\* Variant of CancelCurrentUpdate: an absent lock directory is an error.
CancelCurrentUpdateStrict(p, s) ==
    /\ pc[p] = "idle"
    /\ LET allFiles == SortedSeq(Markers(s)) IN
       IF allFiles = <<>>
       THEN /\ ret' = [ret EXCEPT ![p] = [op |-> "Cancel", r |-> "NotFound"]]
            /\ UNCHANGED <<pc, cur>>
       ELSE /\ pc' = [pc EXCEPT ![p] = "cancel_delete"]
            /\ cur' = [cur EXCEPT ![p] = [Blank EXCEPT !.op = "Cancel", !.stack = s,
                                                     !.listed = allFiles,
                                                     !.all = Markers(s)]]
            /\ ret' = [ret EXCEPT ![p] = NoRet]
    /\ UNCHANGED <<aside, lockID, store, meta, bucket, saved, nextId, lim>>

\* listBucket(stackLockDir(...)): an absent or empty directory ends the call
\* with nil.
CancelCurrentUpdate(p, s) ==
    /\ pc[p] = "idle"
    /\ LET allFiles == SortedSeq(Markers(s)) IN
       IF allFiles = <<>>
       THEN /\ ret' = [ret EXCEPT ![p] = [op |-> "Cancel", r |-> "ok"]]
            /\ UNCHANGED <<pc, cur>>
       ELSE /\ pc' = [pc EXCEPT ![p] = "cancel_delete"]
            /\ cur' = [cur EXCEPT ![p] = [Blank EXCEPT !.op = "Cancel", !.stack = s,
                                                     !.listed = allFiles,
                                                     !.all = Markers(s)]]
            /\ ret' = [ret EXCEPT ![p] = NoRet]
    /\ UNCHANGED <<aside, lockID, store, meta, bucket, saved, nextId, lim>>

\* One turn of the loop: bucket.Delete(file.Key).  NotFound returns nil,
\* any other error is returned.
CancelDelete(p) ==
    /\ pc[p] = "cancel_delete"
    /\ LET s == cur[p].stack
           k == Head(cur[p].listed)
           rest == Tail(cur[p].listed)
       IN IF k \notin Markers(s)
          THEN /\ Return(p, "ok")
               /\ UNCHANGED locks
          ELSE \E ok \in BOOLEAN :
                 IF ~ok
                 THEN /\ Return(p, "DeleteError")
                      /\ UNCHANGED locks
                 ELSE /\ locks' = DeleteMarker(s, k)
                      /\ IF rest = <<>>
                         THEN Return(p, "ok")
                         ELSE /\ cur' = [cur EXCEPT ![p].listed = rest]
                              /\ UNCHANGED <<pc, ret>>
    /\ UNCHANGED <<aside, lockID, store, meta, live, backups, history, saved, nextId, lim>>

\* ---- Upgrade (backend.go 267-308) ------------------------------------------

\* (&legacyReferenceStore{b: b}).ListReferences(): the references of the
\* stack files found in the legacy location, in listing order.
LegacyListing == SortedSeq({s \in Stacks : live[s] # NoChk})

\* "Try and find the project name from _any_ resource URN": the project of
\* the first resource, blank (0) when the snapshot has none.
InferProject(chk) == IF chk.res > 0 THEN chk.project ELSE 0

\* The listing of the old references; its failure ends the call.
Upgrade(p) ==
    /\ pc[p] = "idle"
    /\ \E listed \in BOOLEAN :
         IF listed
         THEN /\ pc' = [pc EXCEPT ![p] = "upgrade_loop"]
              /\ cur' = [cur EXCEPT ![p] = [Blank EXCEPT !.op = "Upgrade",
                                                       !.listed = LegacyListing]]
              /\ ret' = [ret EXCEPT ![p] = NoRet]
         ELSE /\ ret' = [ret EXCEPT ![p] = [op |-> "Upgrade", r |-> "ReadOldReferences"]]
              /\ UNCHANGED <<pc, cur>>
    /\ UNCHANGED <<aside, lockID, store, meta, bucket, saved, nextId, lim>>

\* Variant of UpgradeLoop: the new store is made the active one as soon as
\* the loop is entered.
UpgradeLoopSwapEarly(p) ==
    /\ pc[p] = "upgrade_loop"
    /\ store' = [store EXCEPT ![p] = "project"]
    /\ IF cur[p].listed = <<>>
       THEN /\ pc' = [pc EXCEPT ![p] = "upgrade_manifest"]
            /\ UNCHANGED <<cur, ret>>
       ELSE LET old == Head(cur[p].listed)
                project == InferProject(live[old])
            IN \E readErr \in BOOLEAN :
                 IF readErr
                 THEN Return(p, "ReadError")
                 ELSE IF project = 0
                      THEN Return(p, "NoProject")
                      ELSE /\ pc' = [pc EXCEPT ![p] = "lock_check"]
                           /\ cur' = [cur EXCEPT ![p].stack = old,
                                                 ![p].dst = NewReference(project, NameOf(old)),
                                                 ![p].listed = Tail(@)]
                           /\ UNCHANGED ret
    /\ UNCHANGED <<aside, lockID, meta, bucket, saved, nextId, lim>>

\* Variant of UpgradeLoop: no project is ever found in the snapshot.
UpgradeLoopNoInference(p) ==
    /\ pc[p] = "upgrade_loop"
    /\ IF cur[p].listed = <<>>
       THEN /\ pc' = [pc EXCEPT ![p] = "upgrade_manifest"]
            /\ UNCHANGED <<cur, ret>>
       ELSE \E readErr \in BOOLEAN :
              IF readErr
              THEN Return(p, "ReadError")
              ELSE Return(p, "NoProject")
    /\ UNCHANGED <<aside, lockID, store, meta, bucket, saved, nextId, lim>>

\* One turn of the loop over the old references (276-298): getCheckpoint,
\* the project of the stack, the new reference, and the call of renameStack,
\* which begins with Lock(old).  After the last turn, the manifest.
UpgradeLoop(p) ==
    /\ pc[p] = "upgrade_loop"
    /\ IF cur[p].listed = <<>>
       THEN /\ pc' = [pc EXCEPT ![p] = "upgrade_manifest"]
            /\ UNCHANGED <<cur, ret>>
       ELSE LET old == Head(cur[p].listed)
                project == InferProject(live[old])
            IN \E readErr \in BOOLEAN :
                 IF readErr
                 THEN Return(p, "ReadError")
                 ELSE IF project = 0
                      THEN Return(p, "NoProject")
                      ELSE /\ pc' = [pc EXCEPT ![p] = "lock_check"]
                           /\ cur' = [cur EXCEPT ![p].stack = old,
                                                 ![p].dst = NewReference(project, NameOf(old)),
                                                 ![p].listed = Tail(@)]
                           /\ UNCHANGED ret
    /\ UNCHANGED <<aside, lockID, store, meta, bucket, saved, nextId, lim>>

\* Variant of UpgradeManifest: the store is swapped whether or not the
\* manifest was written.
UpgradeManifestSwapAlways(p) ==
    /\ pc[p] = "upgrade_manifest"
    /\ \E ok \in BOOLEAN :
         /\ meta' = IF ok THEN 1 ELSE meta
         /\ store' = [store EXCEPT ![p] = "project"]
         /\ Return(p, IF ok THEN "ok" ELSE "ManifestWriteError")
    /\ UNCHANGED <<aside, lockID, bucket, saved, nextId, lim>>

\* WriteAll("Pulumi.yaml", version 1), then "b.store = newStore" (300-307).
UpgradeManifest(p) ==
    /\ pc[p] = "upgrade_manifest"
    /\ \E ok \in BOOLEAN :
         IF ok
         THEN /\ meta' = 1
              /\ store' = [store EXCEPT ![p] = "project"]
              /\ Return(p, "ok")
         ELSE /\ Return(p, "ManifestWriteError")
              /\ UNCHANGED <<meta, store>>
    /\ UNCHANGED <<aside, lockID, bucket, saved, nextId, lim>>

\* ---- New: the store of a backend (backend.go 234-245) ------------------------

\* The versions a manifest found in a bucket may carry.
MaxVersion == 2
Versions == 0..MaxVersion

\* "switch v := pulumiState.Version": the legacy store for 0, the
\* project-scoped store for 1, no backend for anything else.
StoreFor(v) == IF v = 0 THEN "legacy" ELSE IF v = 1 THEN "project" ELSE "none"

\* Variant of New: the legacy store whatever the manifest says.
NewAlwaysLegacy(p) ==
    /\ pc[p] = "idle"
    /\ store[p] = "none"
    /\ store' = [store EXCEPT ![p] = "legacy"]
    /\ ret' = [ret EXCEPT ![p] = [op |-> "New", r |-> "ok"]]
    /\ UNCHANGED <<aside, lockID, meta, bucket, pc, cur, saved, nextId, lim>>

\* New on a process that has no backend yet: the manifest is read once and
\* decides the store; an unsupported version fails the construction.
New(p) ==
    /\ pc[p] = "idle"
    /\ store[p] = "none"
    /\ store' = [store EXCEPT ![p] = StoreFor(meta)]
    /\ ret' = [ret EXCEPT ![p] =
                 [op |-> "New",
                  r |-> IF StoreFor(meta) = "none" THEN "Unsupported" ELSE "ok"]]
    /\ UNCHANGED <<aside, lockID, meta, bucket, pc, cur, saved, nextId, lim>>

\* ---- ParseStackReference (backend.go 420-426) --------------------------------

\* "return b.store.ParseReference(stackRef)" on another goroutine of backend
\* p's process: it reads b.store wherever p's own operation stands and takes
\* no mutex.
ParseStackReference(p) ==
    /\ store[p] # "none"
    /\ parsed' = [parsed EXCEPT ![p] = store[p]]
    /\ UNCHANGED <<streams, mutex, currentProject, rendered, configs, mgr, decrypted, lockID,
                   store, meta, bucket, pc, cur, ret,
                 saved, nextId, lim>>

\* ---- GetStack (backend.go 522-538) -------------------------------------------

\* What getStack can come back with for the stack path of s: the checkpoint
\* or a storage error; NotFound when there is no object.
GetStackOutcomes(s) ==
    {"StorageError"} \cup (IF live[s] = NoChk THEN {"NotFound"} ELSE {"ok"})

\* Variant of GetStackResult: NotFound is handed to the caller like any
\* other error.
GetStackResultNotFoundIsError(valid, e) ==
    IF ~valid THEN "InvalidReference"
    ELSE IF e = "ok" THEN "stack" ELSE e

\* What GetStack returns: the error of getReference; for NotFound no stack
\* and no error ("nil"); any other error itself; otherwise the stack.
GetStackResult(valid, e) ==
    IF ~valid THEN "InvalidReference"
    ELSE IF e = "NotFound" THEN "nil"
    ELSE IF e = "ok" THEN "stack" ELSE e

\* GetStack: the reference is validated, then the checkpoint is read.
GetStack(p, s) ==
    /\ pc[p] = "idle"
    /\ store[p] # "none"
    /\ \E valid \in BOOLEAN : \E e \in GetStackOutcomes(s) :
         ret' = [ret EXCEPT ![p] = [op |-> "GetStack", r |-> GetStackResult(valid, e)]]
    /\ UNCHANGED <<aside, lockID, store, meta, bucket, pc, cur, saved, nextId, lim>>

\* ---- rendering of a reference (backend.go 117-147) ---------------------------

\* The projects a workspace may have current: those of the bucket and one
\* more; 0 stands for "currentProject == nil".
WorkspaceProjects == 0..(NumProjects + 1)

\* A rendering is the sequence of the segments that are joined with "/".
NoRendering == [fn |-> "none", ref |-> 0, out |-> <<>>]

\* fmt.Sprintf("organization/%s/%s", r.project, r.name)
Qualified(ref) == <<"organization", ProjectOf(ref), NameOf(ref)>>

\* Variant of StringOf: the project is left out whenever a project is current.
StringOfElideAny(ref, current) ==
    IF ProjectOf(ref) = 0 THEN <<NameOf(ref)>>
    ELSE IF current # 0 THEN <<NameOf(ref)>>
    ELSE Qualified(ref)

\* localBackendReference.String: the name of a reference without project;
\* the name when the project is the current one; else the qualified form.
StringOf(ref, current) ==
    IF ProjectOf(ref) = 0 THEN <<NameOf(ref)>>
    ELSE IF current # 0 /\ ProjectOf(ref) = current THEN <<NameOf(ref)>>
    ELSE Qualified(ref)

\* Variant of FullyQualifiedNameOf: rendered like String.
FullyQualifiedNameElides(ref, current) == StringOf(ref, current)

\* localBackendReference.FullyQualifiedName: the name of a reference without
\* project, the qualified form otherwise.  The current project plays no part.
FullyQualifiedNameOf(ref, current) ==
    IF ProjectOf(ref) = 0 THEN <<NameOf(ref)>>
    ELSE Qualified(ref)

String(p, ref) ==
    /\ rendered' = [rendered EXCEPT ![p] =
           [fn |-> "String", ref |-> ref, out |-> StringOf(ref, currentProject[p])]]
    /\ UNCHANGED <<streams, mutex, parsed, currentProject, configs, mgr, decrypted, lockID,
                   store, meta, bucket, pc, cur, ret,
                   saved, nextId, lim>>

FullyQualifiedName(p, ref) ==
    /\ rendered' = [rendered EXCEPT ![p] =
           [fn |-> "FullyQualifiedName", ref |-> ref,
            out |-> FullyQualifiedNameOf(ref, currentProject[p])]]
    /\ UNCHANGED <<streams, mutex, parsed, currentProject, configs, mgr, decrypted, lockID,
                   store, meta, bucket, pc, cur, ret,
                   saved, nextId, lim>>

\* ---- the secrets manager of a stack (crypto.go 47-82, service manager) -------

\* The per-stack configuration files of the one stack at hand: file 0 is the
\* one workspace.DetectProjectStackPath derives from the stack name
\* (Pulumi.<stack>.yaml), the others are files named explicitly.
MaxConfigFiles == 1
DefaultConfigFile == 0
ConfigFiles == DefaultConfigFile..MaxConfigFiles

\* Values of ProjectStack.SecretsProvider: none, the two that do not name a
\* cloud key, and a cloud key.
SecretsProviders == {"", "default", "passphrase", "awskms://key"}

\* The secrets fields of a workspace.ProjectStack.
Infos == [SecretsProvider : SecretsProviders,
          EncryptedKey : {"", "key"},
          EncryptionSalt : {"", "salt"}]

EmptyInfo == [SecretsProvider |-> "", EncryptedKey |-> "", EncryptionSalt |-> ""]

\* "No manager": what a failed construction returns, and the state before
\* any construction.
NilManager == [caching |-> FALSE, inner |-> "nil"]
NoManager == [fn |-> "none", file |-> DefaultConfigFile, err |-> "none", sm |-> NilManager]

\* stack.NewCachingSecretsManager(sm)
NewCachingSecretsManager(inner) == [caching |-> TRUE, inner |-> inner]

\* Variant of ChooseManager: the salt is looked at before the provider.
ChooseManagerSaltFirst(ps) ==
    IF ps.EncryptionSalt # "" THEN "passphrase"
    ELSE IF /\ ps.SecretsProvider # "passphrase"
            /\ ps.SecretsProvider # "default"
            /\ ps.SecretsProvider # ""
         THEN "cloud"
         ELSE "default"

\* The inner function of getStackSecretsManager (crypto.go 66-76): which
\* manager is constructed for the loaded ProjectStack.
ChooseManager(ps) ==
    IF /\ ps.SecretsProvider # "passphrase"
       /\ ps.SecretsProvider # "default"
       /\ ps.SecretsProvider # ""
    THEN "cloud"
    ELSE IF ps.EncryptionSalt # ""
         THEN "passphrase"
         ELSE "default"

\* getStackSecretsManager for the stack whose configuration is file f: each
\* of readProject, loadProjectStack, getProjectStackPath and the constructor
\* of the chosen manager may fail, and then there is no manager.
GetStackSecretsManager(f) ==
    /\ \E failure \in {"none", "readProject", "loadProjectStack",
                       "getProjectStackPath", "construct"} :
         mgr' = [fn |-> "getStackSecretsManager", file |-> f, err |-> failure,
                 sm |-> IF failure = "none"
                        THEN NewCachingSecretsManager(ChooseManager(configs[f]))
                        ELSE NilManager]
    /\ UNCHANGED <<streams, mutex, parsed, currentProject, rendered, configs, decrypted,
                   lockID, store, meta,
                   bucket, pc, cur, ret, saved, nextId, lim>>

\* Variant of ChangeProjectStackSecretDetails: the salt is left in place.
ChangeProjectStackSecretDetailsKeepSalt(info) ==
    [info |-> [info EXCEPT !.SecretsProvider = "", !.EncryptedKey = ""],
     requiresSave |-> info.SecretsProvider # "" \/ info.EncryptedKey # ""]

\* changeProjectStackSecretDetails: every non-empty field is emptied, and
\* the caller is told whether one was.
ChangeProjectStackSecretDetails(info) ==
    [info |-> EmptyInfo,
     requiresSave |-> \/ info.SecretsProvider # ""
                      \/ info.EncryptedKey # ""
                      \/ info.EncryptionSalt # ""]

\* NewServiceSecretsManager(client, id, stackName, configFile) with
\* configFile = f: the ProjectStack is loaded from configFile, its secrets
\* fields are emptied, and if one was set it is saved with
\* workspace.SaveProjectStack(stackName.Q(), info), which is given the stack
\* name and no file, so writes the file derived from the name.
NewServiceSecretsManager(f) ==
    /\ \E failure \in {"none", "DetectProjectStackPath", "LoadProjectStack",
                       "SaveProjectStack"} :
         LET changed == ChangeProjectStackSecretDetails(configs[f])
             fails == \/ failure \in {"DetectProjectStackPath", "LoadProjectStack"}
                      \/ (failure = "SaveProjectStack" /\ changed.requiresSave)
         IN /\ configs' = IF ~fails /\ changed.requiresSave
                          THEN [configs EXCEPT ![DefaultConfigFile] = changed.info]
                          ELSE configs
            /\ mgr' = [fn |-> "NewServiceSecretsManager", file |-> f,
                       err |-> IF fails THEN failure ELSE "none",
                       sm |-> IF fails THEN NilManager
                              ELSE [caching |-> FALSE, inner |-> "service"]]
    /\ UNCHANGED <<streams, mutex, parsed, currentProject, rendered, decrypted, lockID, store, meta,
                   bucket, pc, cur, ret, saved, nextId, lim>>

\* ---- the service crypter (service manager, DecryptValue and BulkDecrypt) -----

MaxCipherLen == 4    \* characters of a cipher string
MaxSecrets == 2      \* cipher strings handed to one BulkDecrypt

\* The characters a cipher string is made of here: a digit of the base64
\* alphabet, the padding character, and a character outside the alphabet.
Base64Chars == {"Q", "=", "*"}

\* The value of a digit of the alphabet ("Q" is the 17th, value 16).
DigitValue(c) == IF c = "Q" THEN 16 ELSE 0
IsDigit(c) == c = "Q"

CipherStrings == UNION {[1..n -> Base64Chars] : n \in 0..MaxCipherLen}

\* base64.StdEncoding.DecodeString: four characters at a time give three
\* bytes; the last four may end in one or two padding characters and then
\* give two bytes or one.  Anything else is corrupt input.
CorruptInput == [ok |-> FALSE, bytes |-> <<>>]

RECURSIVE DecodeString(_)
DecodeString(s) ==
    IF s = <<>> THEN [ok |-> TRUE, bytes |-> <<>>]
    ELSE IF Len(s) < 4 THEN CorruptInput
    ELSE LET rest == SubSeq(s, 5, Len(s))
             v1 == DigitValue(s[1])
             v2 == DigitValue(s[2])
             v3 == DigitValue(s[3])
             v4 == DigitValue(s[4])
             b1 == (v1 * 4 + (v2 \div 16)) % 256
             b2 == ((v2 % 16) * 16 + (v3 \div 4)) % 256
             b3 == ((v3 % 4) * 64 + v4) % 256
         IN IF ~(IsDigit(s[1]) /\ IsDigit(s[2])) THEN CorruptInput
            ELSE IF IsDigit(s[3]) /\ IsDigit(s[4])
                 THEN LET more == DecodeString(rest)
                      IN IF more.ok
                         THEN [ok |-> TRUE, bytes |-> <<b1, b2, b3>> \o more.bytes]
                         ELSE CorruptInput
                 ELSE IF IsDigit(s[3]) /\ s[4] = "=" /\ rest = <<>>
                      THEN [ok |-> TRUE, bytes |-> <<b1, b2>>]
                      ELSE IF s[3] = "=" /\ s[4] = "=" /\ rest = <<>>
                           THEN [ok |-> TRUE, bytes |-> <<b1>>]
                           ELSE CorruptInput

\* The plaintext the service holds for a ciphertext.
ServicePlaintext(bytes) == [i \in 1..Len(bytes) |-> (bytes[i] + 128) % 256]

\* The state before any call.
NoDecryption == [fn |-> "none", input |-> <<>>, err |-> "none", out |-> <<>>, remote |-> 0]

\* Variant of DecryptValue: a string that does not decode is handed back as
\* the plaintext.
DecryptValueUndecodedIsPlain(cipherstring) ==
    /\ LET d == DecodeString(cipherstring)
       IN IF ~d.ok
          THEN decrypted' = [fn |-> "DecryptValue", input |-> <<cipherstring>>,
                             err |-> "none", out |-> <<cipherstring>>, remote |-> 0]
          ELSE \E fails \in BOOLEAN :
                 decrypted' = [fn |-> "DecryptValue", input |-> <<cipherstring>>,
                               err |-> IF fails THEN "DecryptError" ELSE "none",
                               out |-> IF fails THEN <<>> ELSE <<ServicePlaintext(d.bytes)>>,
                               remote |-> 1]
    /\ UNCHANGED <<streams, mutex, parsed, currentProject, rendered, configs, mgr, lockID, store,
                   meta, bucket, pc, cur, ret, saved, nextId, lim>>

\* serviceCrypter.DecryptValue: decode, and only then ask the service.
DecryptValue(cipherstring) ==
    /\ LET d == DecodeString(cipherstring)
       IN IF ~d.ok
          THEN decrypted' = [fn |-> "DecryptValue", input |-> <<cipherstring>>,
                             err |-> "CorruptInput", out |-> <<>>, remote |-> 0]
          ELSE \E fails \in BOOLEAN :
                 decrypted' = [fn |-> "DecryptValue", input |-> <<cipherstring>>,
                               err |-> IF fails THEN "DecryptError" ELSE "none",
                               out |-> IF fails THEN <<>> ELSE <<ServicePlaintext(d.bytes)>>,
                               remote |-> 1]
    /\ UNCHANGED <<streams, mutex, parsed, currentProject, rendered, configs, mgr, lockID, store,
                   meta, bucket, pc, cur, ret, saved, nextId, lim>>

\* serviceCrypter.BulkDecrypt: every string is decoded, the first that does
\* not decode ends the call; then one request for all of them.
BulkDecrypt(secrets) ==
    /\ LET d == [i \in 1..Len(secrets) |-> DecodeString(secrets[i])]
       IN IF \E i \in 1..Len(secrets) : ~d[i].ok
          THEN decrypted' = [fn |-> "BulkDecrypt", input |-> secrets,
                             err |-> "CorruptInput", out |-> <<>>, remote |-> 0]
          ELSE \E fails \in BOOLEAN :
                 decrypted' = [fn |-> "BulkDecrypt", input |-> secrets,
                               err |-> IF fails THEN "DecryptError" ELSE "none",
                               out |-> IF fails THEN <<>>
                                       ELSE [i \in 1..Len(secrets) |->
                                               ServicePlaintext(d[i].bytes)],
                               remote |-> 1]
    /\ UNCHANGED <<streams, mutex, parsed, currentProject, rendered, configs, mgr, lockID, store,
                   meta, bucket, pc, cur, ret, saved, nextId, lim>>

\* ---- the event tasks of apply (backend.go 775-845) ---------------------------
\* apply starts the update, spawns the display task and the task that
\* forwards the engine's events, runs the engine on its own thread, and then
\* waits for both tasks.  The four channels it makes are unbuffered: a send
\* and its receive are one step.  The engine and the display are not part
\* of the sources at hand: the engine emits events and, last, its final
\* (cancel) event; the display receives events and signals done by closing
\* displayDone once it has received the final one (specification, section 5).

MaxEvents == 2       \* events an engine run emits before its final event

EventKinds == {"resource", "diagnostic"}
FinalEvent == "cancel"

StreamsInit ==
    /\ task = [apply |-> "idle", forward |-> "none", display |-> "none",
               held |-> "none", started |-> FALSE]
    /\ chans = [engineEvents |-> "none", displayEvents |-> "none",
                displayDone |-> "none", eventsDone |-> "none"]
    /\ stream = [emitted |-> <<>>, shown |-> <<>>, heard |-> <<>>]
    /\ scope = [cancelled |-> FALSE, closed |-> FALSE, events |-> FALSE]
    /\ fault = {}

\* close(ch): the channel is closed; closing a closed channel panics.
Closed(ch) == [chans EXCEPT ![ch] = "closed"]
CloseFault(ch) ==
    IF chans[ch] = "closed" THEN fault \cup {"close of closed channel"} ELSE fault

\* b.newUpdate (775-778): its error is returned before any task exists.
ApplyNewUpdate ==
    /\ task.apply = "idle"
    /\ \E ok \in BOOLEAN :
         task' = [task EXCEPT !.apply = IF ok THEN "spawn" ELSE "returned",
                              !.started = ok]
    /\ UNCHANGED <<chans, stream, scope, fault, beside>>

\* The channels are made, the display task and the forwarding task are
\* spawned (781-804); the engine is next.
ApplySpawn ==
    /\ task.apply = "spawn"
    /\ chans' = [engineEvents |-> "open", displayEvents |-> "open",
                 displayDone |-> "open", eventsDone |-> "open"]
    /\ task' = [task EXCEPT !.apply = "engine", !.forward = "recv", !.display = "recv"]
    /\ UNCHANGED <<stream, scope, fault, beside>>

\* The operation's cancellation signal is closed while the scope takes
\* cancellations.
ScopeCancel ==
    /\ task.started
    /\ task.apply # "returned"
    /\ ~scope.closed
    /\ ~scope.cancelled
    /\ scope' = [scope EXCEPT !.cancelled = TRUE]
    /\ UNCHANGED <<task, chans, stream, fault, beside>>

\* The engine operation (821-834) sends an event on engineEvents, handing it
\* to the forwarding task; having sent its final event it returns.
EngineEmit(e) ==
    /\ task.apply = "engine"
    /\ e \in EventKinds => Len(stream.emitted) < MaxEvents
    /\ IF chans.engineEvents = "closed"
       THEN /\ fault' = fault \cup {"send on closed channel"}
            /\ task' = [task EXCEPT !.apply = "panicked"]
            /\ UNCHANGED stream
       ELSE /\ task.forward = "recv"
            /\ stream' = [stream EXCEPT !.emitted = Append(@, e)]
            /\ task' = [task EXCEPT !.forward = "to_display", !.held = e,
                                    !.apply = IF e = FinalEvent
                                              THEN "wait_display" ELSE @]
            /\ UNCHANGED fault
    /\ UNCHANGED <<chans, scope, beside>>

\* "displayEvents <- e" (795): the display task takes the event; the final
\* event makes it finish.
ForwardToDisplay ==
    /\ task.forward = "to_display"
    /\ IF chans.displayEvents = "closed"
       THEN /\ fault' = fault \cup {"send on closed channel"}
            /\ task' = [task EXCEPT !.forward = "panicked"]
            /\ UNCHANGED stream
       ELSE /\ task.display = "recv"
            /\ stream' = [stream EXCEPT !.shown = Append(@, task.held)]
            /\ task' = [task EXCEPT
                          !.display = IF task.held = FinalEvent THEN "signal" ELSE "recv",
                          !.forward = IF scope.events THEN "to_events" ELSE "recv",
                          !.held = IF scope.events THEN @ ELSE "none"]
            /\ UNCHANGED fault
    /\ UNCHANGED <<chans, scope, beside>>

\* "events <- e" when the caller gave a channel (798-800): the caller's
\* listener takes the event.
ForwardToCaller ==
    /\ task.forward = "to_events"
    /\ stream' = [stream EXCEPT !.heard = Append(@, task.held)]
    /\ task' = [task EXCEPT !.forward = "recv", !.held = "none"]
    /\ UNCHANGED <<chans, scope, fault, beside>>

\* Variant of ForwarderExit: the forwarding task also closes displayEvents
\* on its way out.
ForwarderExitClosesDisplay ==
    /\ task.forward = "recv"
    /\ chans.engineEvents = "closed"
    /\ chans' = [chans EXCEPT !.eventsDone = "closed", !.displayEvents = "closed"]
    /\ fault' = CloseFault("eventsDone")
    /\ task' = [task EXCEPT !.forward = "exited"]
    /\ UNCHANGED <<stream, scope, beside>>

\* The range over engineEvents ends when the channel is closed; the task
\* closes eventsDone and exits (803).
ForwarderExit ==
    /\ task.forward = "recv"
    /\ chans.engineEvents = "closed"
    /\ chans' = Closed("eventsDone")
    /\ fault' = CloseFault("eventsDone")
    /\ task' = [task EXCEPT !.forward = "exited"]
    /\ UNCHANGED <<stream, scope, beside>>

\* The display task, having received the final event, signals done and
\* exits.
DisplaySignal ==
    /\ task.display = "signal"
    /\ chans' = Closed("displayDone")
    /\ fault' = CloseFault("displayDone")
    /\ task' = [task EXCEPT !.display = "exited"]
    /\ UNCHANGED <<stream, scope, beside>>

\* "<-displayDone" (838)
ApplyAwaitDisplay ==
    /\ task.apply = "wait_display"
    /\ chans.displayDone = "closed"
    /\ task' = [task EXCEPT !.apply = "close_engine"]
    /\ UNCHANGED <<chans, stream, scope, fault, beside>>

\* Variant of ApplyCloseEngineEvents: the scope is closed, engineEvents is
\* left open.
ApplyCloseScopeOnly ==
    /\ task.apply = "close_engine"
    /\ scope' = [scope EXCEPT !.closed = TRUE]
    /\ task' = [task EXCEPT !.apply = "wait_events"]
    /\ UNCHANGED <<chans, stream, fault, beside>>

\* "scope.Close()", "close(engineEvents)" (839-840)
ApplyCloseEngineEvents ==
    /\ task.apply = "close_engine"
    /\ scope' = [scope EXCEPT !.closed = TRUE]
    /\ chans' = Closed("engineEvents")
    /\ fault' = CloseFault("engineEvents")
    /\ task' = [task EXCEPT !.apply = "wait_events"]
    /\ UNCHANGED <<stream, beside>>

\* Variant of ApplyAwaitForwarder: apply goes on without the forwarding task.
ApplyAwaitForwarderNoWait ==
    /\ task.apply = "wait_events"
    /\ task' = [task EXCEPT !.apply = "close_display"]
    /\ UNCHANGED <<chans, stream, scope, fault, beside>>

\* "<-eventsDone" (844)
ApplyAwaitForwarder ==
    /\ task.apply = "wait_events"
    /\ chans.eventsDone = "closed"
    /\ task' = [task EXCEPT !.apply = "close_display"]
    /\ UNCHANGED <<chans, stream, scope, fault, beside>>

\* "close(displayEvents)" (845); what follows spawns and awaits nothing
\* more, and apply returns.
ApplyCloseDisplayEvents ==
    /\ task.apply = "close_display"
    /\ chans' = Closed("displayEvents")
    /\ fault' = CloseFault("displayEvents")
    /\ task' = [task EXCEPT !.apply = "returned"]
    /\ UNCHANGED <<stream, scope, beside>>

\* ---- the system ------------------------------------------------------------

\* The state aside of the stack operations as New leaves it: the mutex of a
\* fresh backend is unlocked, no reference has been parsed.
StoreAsideInit ==
    /\ mutex = [p \in Procs |-> "unlocked"]
    /\ parsed = [p \in Procs |-> "none"]

\* No current project, nothing rendered.
NamesInit ==
    /\ currentProject = [p \in Procs |-> 0]
    /\ rendered = [p \in Procs |-> NoRendering]

\* Configuration files without secrets fields, no manager constructed.
SecretsInit ==
    /\ configs = [f \in ConfigFiles |-> EmptyInfo]
    /\ mgr = NoManager
    /\ decrypted = NoDecryption

AsideInit ==
    /\ StoreAsideInit
    /\ NamesInit
    /\ SecretsInit
    /\ StreamsInit

\* An empty bucket in the legacy layout and idle backends.
CoreInit ==
    /\ lockID = [p \in Procs |-> NewLockID(p)]
    /\ locks = [s \in Refs |-> {}]
    /\ live = [s \in Refs |-> NoChk]
    /\ backups = [s \in Refs |-> <<>>]
    /\ history = [s \in Refs |-> <<>>]
    /\ pc = [p \in Procs |-> "idle"]
    /\ cur = [p \in Procs |-> Blank]
    /\ ret = [p \in Procs |-> NoRet]
    /\ saved = [s \in Refs |-> <<>>]
    /\ nextId = 1
    /\ store = [p \in Procs |-> "legacy"]
    /\ meta = 0
    /\ lim = [saves |-> MaxSaves, hist |-> MaxHist, backups |-> MaxBackups]

Init ==
    /\ AsideInit
    /\ CoreInit

\* The steps inside Lock, Unlock and saveCheckpoint.
LockSteps(p) ==
    \/ LockCheck(p)
    \/ LockWrite(p)
    \/ LockVerify(p)
    \/ LockUndo(p)
    \/ Unlock(p)

SaveSteps(p) ==
    \/ SaveBackup(p)
    \/ SaveWrite(p)

ApplySteps(p) ==
    \/ ApplyStart(p)
    \/ EngineSave(p)
    \/ EngineReturn(p)
    \/ ApplyAddToHistory(p)
    \/ ApplyBackupStack(p)

\* Every operation of every backend, on every stack.
Next ==
    \E p \in Procs :
        \/ LockSteps(p)
        \/ SaveSteps(p)
        \/ ApplySteps(p)
        \/ \E s \in Stacks : CreateStack(p, s)
        \/ CreateStackGet(p)
        \/ CreateStackDone(p)
        \/ \E s \in Stacks, force \in BOOLEAN : RemoveStack(p, s, force)
        \/ RemoveStackGet(p)
        \/ RemoveStackDo(p)
        \/ \E old \in Stacks, new \in Stacks : RenameStack(p, old, new)
        \/ RenameStackGet(p)
        \/ RenameStackExists(p)
        \/ RenameStackBackup(p)
        \/ RenameStackHistory(p)
        \/ \E s \in Stacks : ImportDeployment(p, s)
        \/ ImportDeploymentSave(p)
        \/ ImportDeploymentDone(p)
        \/ \E s \in Stacks : Update(p, s)
        \/ \E s \in Stacks : Import(p, s)
        \/ \E s \in Stacks : Refresh(p, s)
        \/ \E s \in Stacks : Destroy(p, s)
        \/ PreviewThenPromptThenExecute(p)
        \/ \E s \in Stacks : Preview(p, s)
        \/ \E s \in Stacks : Watch(p, s)
        \/ \E s \in Stacks : CancelCurrentUpdate(p, s)
        \/ CancelDelete(p)
        \/ Upgrade(p)
        \/ UpgradeLoop(p)
        \/ UpgradeManifest(p)

Spec == Init /\ [][Next]_vars

\* ---- scenario: the lock protocol under contention --------------------------
\* The workers run the lock-guarded operations, Preview and Watch on the
\* contended stack; nobody force-cancels.

InitLock ==
    /\ AsideInit
    /\ lockID = [p \in Procs |-> NewLockID(p)]
    /\ locks = [s \in Refs |-> {}]
    /\ live = [s \in Refs |-> NoChk]
    /\ backups = [s \in Refs |-> <<>>]
    /\ history = [s \in Refs |-> <<>>]
    /\ pc = [p \in Procs |-> "idle"]
    /\ cur = [p \in Procs |-> Blank]
    /\ ret = [p \in Procs |-> NoRet]
    /\ saved = [s \in Refs |-> <<>>]
    /\ nextId = 1
    /\ store = [p \in Procs |-> "legacy"]
    /\ meta = 0
    /\ lim = [saves |-> MaxSavesLock, hist |-> MaxHistLock, backups |-> MaxBackupsLock]

NextLock ==
    \E p \in Workers :
        \/ LockSteps(p)
        \/ SaveSteps(p)
        \/ ApplySteps(p)
        \/ \E s \in Contended : CreateStack(p, s)
        \/ CreateStackGet(p)
        \/ CreateStackDone(p)
        \/ \E s \in Contended, force \in BOOLEAN : RemoveStack(p, s, force)
        \/ RemoveStackGet(p)
        \/ RemoveStackDo(p)
        \/ \E old \in Contended, new \in Stacks : RenameStack(p, old, new)
        \/ RenameStackGet(p)
        \/ RenameStackExists(p)
        \/ RenameStackBackup(p)
        \/ RenameStackHistory(p)
        \/ \E s \in Contended : ImportDeployment(p, s)
        \/ ImportDeploymentSave(p)
        \/ ImportDeploymentDone(p)
        \/ \E s \in Contended : Update(p, s)
        \/ \E s \in Contended : Import(p, s)
        \/ \E s \in Contended : Refresh(p, s)
        \/ \E s \in Contended : Destroy(p, s)
        \/ PreviewThenPromptThenExecute(p)
        \/ \E s \in Contended : Preview(p, s)
        \/ \E s \in Contended : Watch(p, s)

SpecLock == InitLock /\ [][NextLock]_vars

\* ---- scenario: force-cancel against running operations ---------------------
\* The workers create, import into and update the contended stack while the
\* operator's backend cancels.

NextCancel ==
    \/ \E p \in Workers :
        \/ LockSteps(p)
        \/ SaveSteps(p)
        \/ ApplySteps(p)
        \/ \E s \in Contended : CreateStack(p, s)
        \/ CreateStackGet(p)
        \/ CreateStackDone(p)
        \/ \E s \in Contended : ImportDeployment(p, s)
        \/ ImportDeploymentSave(p)
        \/ ImportDeploymentDone(p)
        \/ \E s \in Contended : Update(p, s)
        \/ PreviewThenPromptThenExecute(p)
    \/ \E s \in Contended : CancelCurrentUpdate(Operator, s)
    \/ CancelDelete(Operator)

SpecCancel == InitLock /\ [][NextCancel]_vars

\* ---- scenario: force-cancel of markers left behind -------------------------
\* Backends that died while holding a lock have left their markers; the
\* operator's backend, alone, cancels and creates stacks, one call after the
\* other.

InitCancelSeq ==
    /\ AsideInit
    /\ lockID = [p \in Procs |-> NewLockID(p)]
    /\ locks \in [Refs -> SUBSET {<<lockID[w], w>> : w \in Workers}]
    /\ \A s \in Refs \ Stacks : locks[s] = {}
    /\ live = [s \in Refs |-> NoChk]
    /\ backups = [s \in Refs |-> <<>>]
    /\ history = [s \in Refs |-> <<>>]
    /\ pc = [p \in Procs |-> IF p \in Workers THEN "dead" ELSE "idle"]
    /\ cur = [p \in Procs |-> Blank]
    /\ ret = [p \in Procs |-> NoRet]
    /\ saved = [s \in Refs |-> <<>>]
    /\ nextId = 1
    /\ store = [p \in Procs |-> "legacy"]
    /\ meta = 0
    /\ lim = [saves |-> MaxSavesLock, hist |-> MaxHistLock, backups |-> MaxBackupsLock]

NextCancelSeq ==
    \/ \E s \in Stacks : CancelCurrentUpdate(Operator, s)
    \/ CancelDelete(Operator)
    \/ \E s \in Stacks : CreateStack(Operator, s)
    \/ CreateStackGet(Operator)
    \/ CreateStackDone(Operator)
    \/ LockCheck(Operator)
    \/ LockWrite(Operator)
    \/ LockVerify(Operator)
    \/ Unlock(Operator)
    \/ SaveSteps(Operator)

SpecCancelSeq == InitCancelSeq /\ [][NextCancelSeq]_vars

\* ---- scenario: one backend saving checkpoints ------------------------------
\* A single backend runs, one after the other, operations that write the
\* checkpoint of the contended stack, and previews.

Saver == CHOOSE p \in Workers : \A q \in Workers : p <= q

NextSave ==
    \/ LockCheck(Saver)
    \/ LockWrite(Saver)
    \/ LockVerify(Saver)
    \/ Unlock(Saver)
    \/ SaveSteps(Saver)
    \/ ApplySteps(Saver)
    \/ \E s \in Contended : CreateStack(Saver, s)
    \/ CreateStackGet(Saver)
    \/ CreateStackDone(Saver)
    \/ \E s \in Contended : ImportDeployment(Saver, s)
    \/ ImportDeploymentSave(Saver)
    \/ ImportDeploymentDone(Saver)
    \/ \E s \in Contended : Update(Saver, s)
    \/ \E s \in Contended : Destroy(Saver, s)
    \/ PreviewThenPromptThenExecute(Saver)
    \/ \E s \in Contended : Preview(Saver, s)

SpecSave == Init /\ [][NextSave]_vars

\* ---- scenario: one backend, every operation on the store -------------------
\* As above, with removal and rename of the stack.

NextStore ==
    \/ NextSave
    \/ \E s \in Contended, force \in BOOLEAN : RemoveStack(Saver, s, force)
    \/ RemoveStackGet(Saver)
    \/ RemoveStackDo(Saver)
    \/ \E old \in Contended, new \in Stacks : RenameStack(Saver, old, new)
    \/ RenameStackGet(Saver)
    \/ RenameStackExists(Saver)
    \/ RenameStackBackup(Saver)
    \/ RenameStackHistory(Saver)

SpecStore == Init /\ [][NextStore]_vars

\* ---- scenario: migration of a legacy bucket --------------------------------
\* The bucket holds stack files in the legacy location: each stack is absent,
\* empty, or deployed with resources of some project and an update in its
\* history.  The manifest is at version 0, or at version 1 with legacy files
\* brought into the bucket afterwards.  One backend upgrades, as often as it
\* likes, and imports deployments into legacy stacks in between.

\* The stack file of a legacy stack as the scenario starts.
LegacyFiles(s) ==
    {NoChk, NewChk(s, 0, s, 0)} \cup {NewChk(s, MaxRes, s, j) : j \in Projects}

InitUpgrade ==
    /\ AsideInit
    /\ lockID = [p \in Procs |-> NewLockID(p)]
    /\ locks = [s \in Refs |-> {}]
    /\ live \in [Refs -> UNION {LegacyFiles(s) : s \in Stacks}]
    /\ \A s \in Stacks : live[s] \in LegacyFiles(s)
    /\ \A s \in Refs \ Stacks : live[s] = NoChk
    /\ backups = [s \in Refs |-> <<>>]
    /\ history = [s \in Refs |->
                    IF live[s].res > 0
                    THEN <<[kind |-> "update", result |-> "succeeded"]>>
                    ELSE <<>>]
    /\ pc = [p \in Procs |-> "idle"]
    /\ cur = [p \in Procs |-> Blank]
    /\ ret = [p \in Procs |-> NoRet]
    /\ saved = [s \in Refs |-> IF live[s] = NoChk THEN <<>> ELSE <<live[s]>>]
    /\ nextId = NumStacks + 1
    /\ lim = [saves |-> NumStacks + MaxSavesLock, hist |-> MaxHist, backups |-> MaxBackups]
    /\ meta \in {0, 1}
    /\ store = [p \in Procs |-> IF meta = 0 THEN "legacy" ELSE "project"]

NextUpgrade ==
    \/ Upgrade(Saver)
    \/ UpgradeLoop(Saver)
    \/ UpgradeManifest(Saver)
    \/ LockCheck(Saver)
    \/ LockWrite(Saver)
    \/ LockVerify(Saver)
    \/ Unlock(Saver)
    \/ RenameStackGet(Saver)
    \/ RenameStackExists(Saver)
    \/ RenameStackBackup(Saver)
    \/ RenameStackHistory(Saver)
    \/ SaveSteps(Saver)
    \/ \E s \in Stacks : ImportDeployment(Saver, s)
    \/ ImportDeploymentSave(Saver)
    \/ ImportDeploymentDone(Saver)

SpecUpgrade == InitUpgrade /\ [][NextUpgrade]_vars

\* ---- scenario: the manifest and the store of one backend ----------------------
\* The bucket of the migration scenario, with a manifest of any version.  One
\* process opens the bucket (New), upgrades as often as it likes, looks stacks
\* up and imports into legacy stacks in between, while another goroutine of
\* the process parses stack references.  No other process has a backend.

InitManifest ==
    /\ AsideInit
    /\ lockID = [p \in Procs |-> NewLockID(p)]
    /\ locks = [s \in Refs |-> {}]
    /\ live \in [Refs -> UNION {LegacyFiles(s) : s \in Stacks}]
    /\ \A s \in Stacks : live[s] \in LegacyFiles(s)
    /\ \A s \in Refs \ Stacks : live[s] = NoChk
    /\ backups = [s \in Refs |-> <<>>]
    /\ history = [s \in Refs |->
                    IF live[s].res > 0
                    THEN <<[kind |-> "update", result |-> "succeeded"]>>
                    ELSE <<>>]
    /\ pc = [p \in Procs |-> "idle"]
    /\ cur = [p \in Procs |-> Blank]
    /\ ret = [p \in Procs |-> NoRet]
    /\ saved = [s \in Refs |-> IF live[s] = NoChk THEN <<>> ELSE <<live[s]>>]
    /\ nextId = NumStacks + 1
    /\ lim = [saves |-> NumStacks + MaxSavesLock, hist |-> MaxHist, backups |-> MaxBackups]
    /\ meta \in Versions
    /\ store = [p \in Procs |-> "none"]

NextManifest ==
    \/ New(Saver)
    \/ ParseStackReference(Saver)
    \/ \E s \in Refs : GetStack(Saver, s)
    \/ (store[Saver] # "none" /\ NextUpgrade)

SpecManifest == InitManifest /\ [][NextManifest]_vars

\* ---- scenario: rendering references ------------------------------------------
\* Each worker backend was constructed with some current project or none, and
\* is asked to render references of either layout.

InitNames ==
    /\ StoreAsideInit
    /\ currentProject \in [Procs -> WorkspaceProjects]
    /\ currentProject[Operator] = 0
    /\ rendered = [p \in Procs |-> NoRendering]
    /\ SecretsInit
    /\ StreamsInit
    /\ CoreInit

NextNames ==
    \E p \in Workers : \E ref \in Refs :
        \/ String(p, ref)
        \/ FullyQualifiedName(p, ref)

SpecNames == InitNames /\ [][NextNames]_vars

\* ---- scenario: the secrets manager of a stack --------------------------------
\* The configuration files of a stack carry any secrets fields; managers are
\* resolved and the stack is switched to the service manager, through the
\* file derived from the stack name or through an explicitly named one.

InitSecrets ==
    /\ StoreAsideInit
    /\ NamesInit
    /\ configs \in [ConfigFiles -> Infos]
    /\ mgr = NoManager
    /\ decrypted = NoDecryption
    /\ StreamsInit
    /\ CoreInit

NextSecrets ==
    \E f \in ConfigFiles :
        \/ GetStackSecretsManager(f)
        \/ NewServiceSecretsManager(f)

SpecSecrets == InitSecrets /\ [][NextSecrets]_vars

\* ---- scenario: decrypting with the service crypter ---------------------------
\* A cipher string of any shape is handed to DecryptValue, or a list of
\* cipher strings of full length to BulkDecrypt; the service answers or
\* fails.  The calls do not depend on what was decrypted before, so a run
\* makes one.

BulkInputs ==
    UNION {[1..n -> [1..MaxCipherLen -> Base64Chars]] : n \in 0..MaxSecrets}

NextCrypter ==
    /\ decrypted = NoDecryption
    /\ \/ \E s \in CipherStrings : DecryptValue(s)
       \/ \E l \in BulkInputs : BulkDecrypt(l)

SpecCrypter == Init /\ [][NextCrypter]_vars

\* ---- scenario: the tasks of one apply ----------------------------------------
\* One apply, with or without a channel of the caller for the events.

InitEvents ==
    /\ StoreAsideInit
    /\ NamesInit
    /\ SecretsInit
    /\ task = [apply |-> "idle", forward |-> "none", display |-> "none",
               held |-> "none", started |-> FALSE]
    /\ chans = [engineEvents |-> "none", displayEvents |-> "none",
                displayDone |-> "none", eventsDone |-> "none"]
    /\ stream = [emitted |-> <<>>, shown |-> <<>>, heard |-> <<>>]
    /\ scope \in [cancelled : {FALSE}, closed : {FALSE}, events : BOOLEAN]
    /\ fault = {}
    /\ CoreInit

ApplyThread ==
    \/ ApplyNewUpdate
    \/ ApplySpawn
    \/ ApplyAwaitDisplay
    \/ ApplyCloseEngineEvents
    \/ ApplyAwaitForwarder
    \/ ApplyCloseDisplayEvents

Engine == \E e \in EventKinds \cup {FinalEvent} : EngineEmit(e)

Forwarder ==
    \/ ForwardToDisplay
    \/ ForwardToCaller
    \/ ForwarderExit

NextEvents ==
    \/ ApplyThread
    \/ Engine
    \/ Forwarder
    \/ DisplaySignal
    \/ ScopeCancel

SpecEvents == InitEvents /\ [][NextEvents]_vars

\* The same under fair scheduling: a step of apply's thread, of the engine,
\* of the forwarding task (with the display and the caller's listener
\* receiving) or of the display that stays possible is eventually taken.
\* Cancellation may or may not come.
SpecEventsFair ==
    /\ SpecEvents
    /\ WF_vars(ApplyThread)
    /\ WF_vars(Engine)
    /\ WF_vars(Forwarder)
    /\ WF_vars(DisplaySignal)

\* ---- scenario: renames racing for a destination ----------------------------
\* Every stack of the legacy layout exists, empty and without history; no
\* destination reference has a checkpoint.  The workers, on backends of their
\* own, rename stacks to destination references, as often as they like.
\* renameStack takes any two references (Upgrade calls it with a legacy
\* source and a project destination) and locks the source only.

Destinations == Refs \ Stacks

InitRename ==
    /\ AsideInit
    /\ lockID = [p \in Procs |-> NewLockID(p)]
    /\ locks = [s \in Refs |-> {}]
    /\ live = [s \in Refs |-> IF s \in Stacks THEN NewChk(s, 0, s, 0) ELSE NoChk]
    /\ backups = [s \in Refs |-> <<>>]
    /\ history = [s \in Refs |-> <<>>]
    /\ pc = [p \in Procs |-> "idle"]
    /\ cur = [p \in Procs |-> Blank]
    /\ ret = [p \in Procs |-> NoRet]
    /\ saved = [s \in Refs |-> <<>>]
    /\ nextId = NumStacks + 1
    /\ store = [p \in Procs |-> "legacy"]
    /\ meta = 0
    /\ lim = [saves |-> NumStacks + MaxSavesLock, hist |-> MaxHistLock,
              backups |-> MaxBackupsLock]

NextRename ==
    \E p \in Workers :
        \/ LockSteps(p)
        \/ SaveSteps(p)
        \/ \E old \in Stacks, new \in Destinations : RenameStack(p, old, new)
        \/ RenameStackGet(p)
        \/ RenameStackExists(p)
        \/ RenameStackBackup(p)
        \/ RenameStackHistory(p)

SpecRename == InitRename /\ [][NextRename]_vars

\* ==== properties ============================================================

\* The operations that begin with Lock and defer Unlock.
LockGuarded == {"CreateStack", "RemoveStack", "RenameStack", "ImportDeployment",
                "Update", "Import", "Refresh", "Destroy"}

\* The positions inside Lock.
LockPcs == {"lock_check", "lock_write", "lock_verify", "lock_undo"}

\* p executes the body of a lock-guarded operation on s: it is past Lock and
\* its deferred Unlock has not run.
InBody(p, s) ==
    /\ cur[p].op \in LockGuarded
    /\ cur[p].stack = s
    /\ pc[p] \notin LockPcs \cup {"idle", "dead"}

C2_SecondLockFailsImmediately ==
    [][\A q \in Procs :
        LET s == cur[q].stack IN
        /\ (/\ pc[q] = "lock_check"
            /\ pc'[q] # "lock_check"
            /\ \E p \in Procs \ {q} : Holds(p, s))
           => /\ pc'[q] = "idle"
              /\ ret'[q] = [op |-> cur[q].op, r |-> "Locked"]
              /\ bucket' = bucket
        /\ (pc[q] = "lock_check" /\ pc'[q] # "lock_check" /\ Markers(s) = {})
           => pc'[q] = "lock_write"
        /\ (pc[q] = "lock_verify" /\ pc'[q] # "lock_verify"
                                  /\ Markers(s) = {lockID[q]})
           => (cur'[q].locked /\ cur'[q].stack = s)
        /\ (pc[q] = "unlock" /\ pc'[q] # "unlock" /\ Markers(s) = {lockID[q]})
           => locks'[s] = {}
      ]_vars

\* A backend holds the lock of a stack and another one's operation on that
\* stack has come back with Locked.
C2_SecondFailed ==
    \E s \in Stacks : \E p \in Procs : \E q \in Procs \ {p} :
        /\ Holds(p, s)
        /\ InBody(p, s)
        /\ pc[q] = "idle"
        /\ ret[q].op \in LockGuarded
        /\ ret[q].r = "Locked"

\* C3: whenever a lock-guarded operation has returned, with success or with
\* an error, no lock directory holds a marker this backend created.
C3_LockReleasedOnReturn ==
    \A p \in Procs :
        pc[p] = "idle" =>
            \A s \in Stacks :
                /\ lockID[p] \notin Markers(s)
                /\ \A m \in locks[s] : m[2] # p

\* Lock-guarded operations have returned with an error from inside their
\* body, and one has returned with success.
C3_ReturnedFromBody ==
    \E p \in Procs : \E q \in Procs :
        /\ pc[p] = "idle"
        /\ ret[p] = [op |-> "RemoveStack", r |-> "Refusing"]
        /\ pc[q] = "idle"
        /\ ret[q] = [op |-> "ImportDeployment", r |-> "ok"]

\* p is in a non-dry-run apply, or in a checkpoint write or removal.
Mutating(p) ==
    \/ pc[p] \in {"apply", "engine", "apply_history", "apply_backup"} /\ ~cur[p].dryRun
    \/ pc[p] \in {"save_backup", "save_write", "remove_do", "rename_backup"}

\* C4: while a backend is in a non-dry-run apply or writes a checkpoint of a
\* stack, its own lock marker is in that stack's lock directory.
C4_LockHeldWhileMutating ==
    \A p \in Procs :
        Mutating(p) => <<lockID[p], p>> \in locks[cur[p].stack]

\* C5: a step of Unlock (the deferred one, or the one that takes back the
\* marker of a failed Lock) removes no marker another backend created, adds
\* none, and leaves the checkpoints, backups and histories alone.
C5_UnlockOwnMarkerOnly ==
    [][\A p \in Procs :
        (pc[p] \in {"unlock", "lock_undo"} /\ pc'[p] # pc[p]) =>
            /\ \A s \in Stacks :
                 /\ {m \in locks[s] : m[2] # p} = {m \in locks'[s] : m[2] # p}
                 /\ locks'[s] \subseteq locks[s]
            /\ <<live, backups, history>>' = <<live, backups, history>>
      ]_vars

\* A backend has unlocked a stack and returned while a marker of another
\* backend is in that stack's lock directory.
C5_UnlockedBesideOther ==
    \E s \in Stacks : \E p \in Workers : \E q \in Workers \ {p} :
        /\ pc[p] = "idle"
        /\ ret[p].op \in LockGuarded
        /\ ret[p].r # "Locked"
        /\ <<lockID[q], q>> \in locks[s]
        /\ lockID[p] \notin Markers(s)

\* C6: when CancelCurrentUpdate returns nil, none of the markers it listed
\* and has not itself deleted is left in the lock directory.
C6_CancelDeletesAllListed ==
    [][\A p \in Procs :
        (pc[p] = "cancel_delete" /\ pc'[p] = "idle" /\ ret'[p].r = "ok") =>
            \A k \in Range(Tail(cur[p].listed)) :
                k \notin {m[1] : m \in locks'[cur[p].stack]}
      ]_vars

\* C7: CancelCurrentUpdate on a stack without a marker returns nil and
\* leaves the bucket as it is; called with nothing running beside it, a
\* call that returns nil leaves the lock directory empty, so that a second
\* call is the first case.
C7_CancelIdempotent ==
    [][\A p \in Procs :
        /\ \A s \in Stacks :
             (CancelCurrentUpdate(p, s) /\ Markers(s) = {}) =>
                 /\ ret'[p] = [op |-> "Cancel", r |-> "ok"]
                 /\ pc'[p] = "idle"
                 /\ bucket' = bucket
        /\ (pc[p] = "cancel_delete" /\ pc'[p] = "idle" /\ ret'[p].r = "ok") =>
               locks'[cur[p].stack] = {}
      ]_vars

\* A cancel has returned nil and no lock directory holds a marker: the
\* state a second cancel starts from.
C7_Cancelled ==
    /\ pc[Operator] = "idle"
    /\ ret[Operator] = [op |-> "Cancel", r |-> "ok"]
    /\ \A s \in Stacks : locks[s] = {}

\* No operation is in progress.
Quiescent == \A p \in Procs : pc[p] \in {"idle", "dead"}

\* C8 as stated: after N successful saves to a stack the backup directory
\* holds exactly N-1 objects, checkpoints 1..N-1 in order, and the live
\* object is checkpoint N.
C8_ExactlyNMinusOneBackups ==
    \A s \in Stacks :
        (Quiescent /\ saved[s] # <<>>) =>
            /\ live[s] = saved[s][Len(saved[s])]
            /\ backups[s] = SubSeq(saved[s], 1, Len(saved[s]) - 1)

\* C8, amended: after N successful saves to a stack the live object is
\* checkpoint N, each of checkpoints 1..N-1 has a backup equal to it, the
\* backup directory holds at least N-1 objects and nothing that was not a
\* checkpoint of the stack.
C8_BackupsCoverSaved ==
    \A s \in Stacks :
        (Quiescent /\ saved[s] # <<>>) =>
            /\ live[s] = saved[s][Len(saved[s])]
            /\ \A i \in 1..(Len(saved[s]) - 1) : saved[s][i] \in Range(backups[s])
            /\ Len(backups[s]) >= Len(saved[s]) - 1
            /\ Range(backups[s]) \subseteq Range(saved[s])

\* Two saves have succeeded and the backup directory holds more than one
\* object, the last one a copy of the live checkpoint.
C8_MoreBackupsThanSaves ==
    \E s \in Stacks :
        /\ Quiescent
        /\ Len(saved[s]) = 2
        /\ Len(backups[s]) > 1
        /\ backups[s][Len(backups[s])] = live[s]

\* C9: when the live checkpoint object is about to be overwritten a copy of
\* it is already in the backup directory, and every checkpoint that was ever
\* written to a stack is, at every point, the live object or a backup.
C9_BackupPrecedesOverwrite ==
    /\ \A p \in Procs :
         (pc[p] = "save_write" /\ live[cur[p].target] # NoChk) =>
             live[cur[p].target] \in Range(backups[cur[p].target])
    /\ \A s \in Stacks : \A i \in DOMAIN saved[s] :
         saved[s][i] = live[s] \/ saved[s][i] \in Range(backups[s])

\* The write of a new checkpoint over an existing one has failed: the
\* existing one is live and backed up; and a renamed stack's old checkpoint
\* is a backup.
C9_FailedOverwrite ==
    \E p \in Procs : \E s \in Stacks :
        /\ pc[p] \in {"create_done", "import_done", "engine"}
        /\ cur[p].wErr
        /\ cur[p].target = s
        /\ live[s] # NoChk
        /\ live[s] \in Range(backups[s])
        /\ live[s].id < cur[p].chk.id

\* C10: no step of a dry-run apply changes a history or a backup directory.
C10_DryRunSavesNothing ==
    [][\A p \in Procs :
        (/\ pc[p] \in {"apply", "engine", "apply_history", "apply_backup"}
         /\ cur[p].dryRun
         /\ pc'[p] # pc[p])
        => (history' = history /\ backups' = backups)
      ]_vars

\* A preview whose engine run failed has returned; the stack has a
\* checkpoint, and neither a history record nor a backup.
C10_PreviewReturned ==
    \E p \in Procs : \E s \in Stacks :
        /\ pc[p] = "idle"
        /\ ret[p] = [op |-> "Preview", r |-> "UpdateError"]
        /\ live[s] # NoChk
        /\ history[s] = <<>>
        /\ backups[s] = <<>>

\* The positions of apply.
ApplyPcs == {"apply", "engine", "apply_history", "apply_backup"}

\* C11: in a non-dry-run apply whose engine operation has failed, no step
\* after the engine's return appends a history record or writes a backup.
C11_NoSaveAfterEngineFailure ==
    [][\A p \in Procs :
        (/\ pc[p] \in {"apply_history", "apply_backup"}
         /\ ~cur[p].dryRun
         /\ cur[p].updateErr
         /\ pc'[p] # pc[p])
        => (history' = history /\ backups' = backups)
      ]_vars

\* C12: a non-dry-run apply records the failure of the history append
\* exactly when no record was written, and returns the engine's error if
\* the engine failed, else "saving update info" if the history append
\* failed, else "saving backup" if no backup was written, else success.
C12_ErrorRanking ==
    [][\A p \in Procs :
        /\ (pc[p] = "apply_history" /\ pc'[p] = "apply_backup")
           => (cur'[p].saveErr <=> history' = history)
        /\ (pc[p] = "apply_backup" /\ pc'[p] # pc[p])
           => (IF pc'[p] = "idle" THEN ret'[p].r ELSE cur'[p].res)
              = (IF cur[p].updateErr THEN "UpdateError"
                 ELSE IF cur[p].saveErr THEN "SavingUpdateInfo"
                 ELSE IF backups' = backups THEN "SavingBackup"
                 ELSE "ok")
      ]_vars

\* An update whose engine run, history append and backup have all failed
\* is returning the engine's error.
C12_AllThreeFailed ==
    \E p \in Procs :
        /\ pc[p] = "unlock"
        /\ cur[p].op = "Update"
        /\ cur[p].updateErr
        /\ cur[p].saveErr
        /\ cur[p].res = "UpdateError"
        /\ live[cur[p].stack] = NoChk
        /\ history[cur[p].stack] = <<>>

\* C13: RemoveStack without force on a stack whose checkpoint lists a
\* resource goes to its return with the "refusing" error, and from there
\* through Unlock back to the caller; neither step changes a checkpoint, a
\* history or a backup, and afterwards no marker of this backend is left.
C13_RemoveRefused ==
    [][\A p \in Procs :
        LET s == cur[p].stack IN
        /\ (/\ pc[p] = "remove_get"
            /\ pc'[p] # pc[p]
            /\ ~cur[p].force
            /\ live[s].res > 0)
           => /\ pc'[p] = "unlock"
              /\ cur'[p].res = "Refusing"
              /\ <<live, backups, history>>' = <<live, backups, history>>
        /\ (/\ pc[p] = "unlock"
            /\ cur[p].op = "RemoveStack"
            /\ cur[p].res = "Refusing"
            /\ pc'[p] # pc[p])
           => /\ pc'[p] = "idle"
              /\ ret'[p] = [op |-> "RemoveStack", r |-> "Refusing"]
              /\ <<live, backups, history>>' = <<live, backups, history>>
              /\ \A m \in locks'[s] : m[2] # p
      ]_vars

\* A removal has been refused: the stack still has its checkpoint with a
\* resource, and its lock directory is empty.
C13_Refused ==
    \E p \in Procs : \E s \in Stacks :
        /\ pc[p] = "idle"
        /\ ret[p] = [op |-> "RemoveStack", r |-> "Refusing"]
        /\ live[s].res > 0
        /\ locks[s] = {}

\* C14: the step of RemoveStack that removes the stack with success leaves
\* no object at the stack's path and the removed checkpoint as the newest
\* backup; the return through Unlock changes neither.
C14_RemoveBacksUp ==
    [][\A p \in Procs :
        LET s == cur[p].stack IN
        /\ (pc[p] = "remove_do" /\ pc'[p] # pc[p] /\ cur'[p].res = "ok")
           => /\ live[s] # NoChk
              /\ live'[s] = NoChk
              /\ backups'[s] = Append(backups[s], live[s])
        /\ (/\ pc[p] = "unlock"
            /\ cur[p].op = "RemoveStack"
            /\ cur[p].res = "ok"
            /\ pc'[p] # pc[p])
           => /\ ret'[p] = [op |-> "RemoveStack", r |-> "ok"]
              /\ live'[s] = NoChk
              /\ backups' = backups
      ]_vars

\* A stack with a resource has been removed (by force): nothing is at its
\* path and its checkpoint is the newest backup.
C14_Removed ==
    \E p \in Procs : \E s \in Stacks :
        /\ pc[p] = "idle"
        /\ ret[p] = [op |-> "RemoveStack", r |-> "ok"]
        /\ live[s] = NoChk
        /\ backups[s] # <<>>
        /\ backups[s][Len(backups[s])].res > 0

\* C15: a rename whose destination has a checkpoint object goes to its
\* return with the "already exists" error, and from there through Unlock
\* back to the caller; neither step changes a checkpoint, a history or a
\* backup.
C15_RenameOntoExisting ==
    [][\A p \in Procs :
        /\ (/\ pc[p] = "rename_exists"
            /\ pc'[p] # pc[p]
            /\ live[cur[p].dst] # NoChk)
           => /\ pc'[p] = "unlock"
              /\ cur'[p].res = "AlreadyExists"
              /\ <<live, backups, history>>' = <<live, backups, history>>
        /\ (/\ pc[p] = "unlock"
            /\ cur[p].op = "RenameStack"
            /\ cur[p].res = "AlreadyExists"
            /\ pc'[p] # pc[p])
           => /\ ret'[p] = [op |-> "RenameStack", r |-> "AlreadyExists"]
              /\ <<live, backups, history>>' = <<live, backups, history>>
      ]_vars

\* A rename onto an existing stack has failed; both stacks have their
\* checkpoints.
C15_RenameRefused ==
    \E p \in Procs : \E s \in Stacks : \E d \in Stacks \ {s} :
        /\ pc[p] = "idle"
        /\ ret[p] = [op |-> "RenameStack", r |-> "AlreadyExists"]
        /\ live[s] # NoChk
        /\ live[d] # NoChk
        /\ live[s].id # live[d].id

\* C16: in a rename of S to T, when the old file is about to be backed up
\* the snapshot of S, its URNs rewritten to T's name, is live at T and S is
\* as it was; when the history is about to be relocated S has no live
\* object and its old checkpoint is a backup of S; the relocation puts S's
\* records under T and leaves none under S; and when the rename returns
\* with success all of this is so.
C16_RenameMoves ==
    [][\A p \in Procs :
        LET S == cur[p].stack
            T == cur[p].dst
            old == RenameURNs(cur[p].chk, NameOf(S))
            new == RenameURNs(cur[p].chk, NameOf(T))
            moved == /\ live[T] = new
                     /\ live[S] = NoChk
                     /\ backups[S] # <<>>
                     /\ backups[S][Len(backups[S])] = old
        IN cur[p].op = "RenameStack" =>
            /\ pc[p] = "rename_exists" => cur[p].chk = live[S]
            /\ (pc[p] = "rename_backup" /\ ~cur[p].wErr)
               => /\ live[T] = new
                  /\ live[S] = old
                  /\ old # new
            /\ pc[p] = "rename_history"
               => /\ moved
                  /\ (pc'[p] # pc[p] =>
                        /\ history'[T] = history[T] \o history[S]
                        /\ history'[S] = <<>>)
            /\ (pc[p] = "unlock" /\ cur[p].res = "ok")
               => (moved /\ history[S] = <<>>)
      ]_vars

\* A stack with an update in its history has been renamed: its record is
\* under the new name.
C16_Renamed ==
    \E p \in Procs : \E s \in Stacks : \E d \in Stacks \ {s} :
        /\ pc[p] = "idle"
        /\ ret[p] = [op |-> "RenameStack", r |-> "ok"]
        /\ live[s] = NoChk
        /\ live[d] # NoChk
        /\ live[d].name = NameOf(d)
        /\ history[s] = <<>>
        /\ history[d] # <<>>

\* The references of the project-scoped layout.
ProjectRefs == Refs \ Stacks

\* Upgrade returns r in this step.
UpgradeReturns(p, r) ==
    /\ ret[p] = NoRet \/ pc[p] = "idle"
    /\ pc'[p] = "idle"
    /\ ret'[p] = [op |-> "Upgrade", r |-> r]
    /\ ret'[p] # ret[p] \/ pc[p] # "idle"

UpgradeErrors == {"ReadOldReferences", "ReadError", "NoProject", "Locked", "NotFound",
                  "AlreadyExists", "WriteError"}

\* C17: no step of Upgrade before the write of the manifest changes the
\* manifest or a backend's active store; when Upgrade returns the error of
\* a stack, manifest and store are as they were and every stack moved in
\* this call has its checkpoint under its project-scoped reference and none
\* under the legacy one.
C17_FailedUpgradeKeepsManifest ==
    [][\A p \in Procs :
        /\ (cur[p].op = "Upgrade" /\ pc[p] # "upgrade_manifest")
           => (meta' = meta /\ store' = store)
        /\ \A r \in UpgradeErrors :
             UpgradeReturns(p, r) =>
                /\ meta' = meta
                /\ store' = store
                /\ \A m \in cur[p].all :
                     /\ m[2] \in ProjectRefs
                     /\ live'[m[2]] # NoChk
                     /\ live'[m[1]] = NoChk
      ]_vars

\* An Upgrade has failed at a stack after moving another: the manifest is
\* at version 0, the store is the legacy one, the moved stack is in the
\* project-scoped layout.
C17_FailedAfterMove ==
    \E p \in Procs : \E s \in Stacks : \E n \in ProjectRefs :
        /\ pc[p] = "idle"
        /\ ret[p].op = "Upgrade"
        /\ ret[p].r \in {"ReadError", "WriteError"}
        /\ meta = 0
        /\ store[p] = "legacy"
        /\ live[s] # NoChk
        /\ live[n] # NoChk

\* C18 as stated: when Upgrade returns the project-inference failure, every
\* legacy stack with resources has been migrated, whatever the order of the
\* listing: none with resources is left in the legacy location.
C18_MigratedWhateverTheOrder ==
    [][\A p \in Procs :
        UpgradeReturns(p, "NoProject") =>
            \A a \in Stacks : live'[a].res = 0
      ]_vars

\* C18, amended: when Upgrade returns the project-inference failure for
\* stack B, B has no resources, every stack the listing returned before B
\* has been migrated to the reference of its project and name, and every
\* stack the listing returned after B is in the legacy location as it was.
C18_MigratedWhenListedBefore ==
    [][\A p \in Procs :
        UpgradeReturns(p, "NoProject") =>
            LET B == Head(cur[p].listed) IN
            /\ live'[B] # NoChk
            /\ live'[B].res = 0
            /\ \A a \in Stacks : a < B => live'[a] = NoChk
            /\ \A m \in cur[p].all :
                 /\ m[1] < B
                 /\ live'[m[1]] = NoChk
                 /\ live'[m[2]].res > 0
                 /\ m[2] = NewReference(live'[m[2]].project, NameOf(m[1]))
            /\ \A a \in Range(Tail(cur[p].listed)) :
                 /\ B < a
                 /\ live'[a] = live[a]
                 /\ live'[a] # NoChk
                 /\ a \notin {m[1] : m \in cur[p].all}
      ]_vars

\* Upgrade has failed at the empty stack B after migrating stack A, which
\* the listing returned first.
C18_AMigratedBFailed ==
    \E p \in Procs : \E A \in Stacks : \E B \in Stacks :
        /\ A < B
        /\ pc[p] = "idle"
        /\ ret[p] = [op |-> "Upgrade", r |-> "NoProject"]
        /\ live[A] = NoChk
        /\ \E j \in Projects : live[NewReference(j, A)].res > 0
        /\ live[B] # NoChk
        /\ live[B].res = 0

\* C19: during an Upgrade the stacks still to be moved are stack files of
\* the legacy location, a stack moved has no file there (so that a later
\* listing does not return it), and no step of an Upgrade changes the
\* checkpoint, history or backups of a stack that is in the project-scoped
\* layout, except for the one being moved in that step.
C19_RerunLeavesMovedStacks ==
    [][\A p \in Procs :
        cur[p].op = "Upgrade" =>
            /\ \A o \in Range(cur[p].listed) : live[o] # NoChk
            /\ \A m \in cur[p].all :
                 /\ live[m[1]] = NoChk
                 /\ m[1] \notin Range(LegacyListing)
            /\ \A n \in ProjectRefs :
                 (/\ live[n] # NoChk
                  /\ ~(/\ n = cur[p].dst
                       /\ pc[p] \in {"save_backup", "save_write", "rename_backup",
                                     "rename_history"}))
                 => /\ live'[n] = live[n]
                    /\ history'[n] = history[n]
                    /\ backups'[n] = backups[n]
      ]_vars

\* A later Upgrade is under way: a stack moved by an earlier Upgrade is in
\* the project-scoped layout and is not among the stacks listed.
C19_SecondUpgrade ==
    \E p \in Procs : \E n \in ProjectRefs :
        /\ cur[p].op = "Upgrade"
        /\ pc[p] = "upgrade_loop"
        /\ cur[p].all = {}
        /\ cur[p].listed # <<>>
        /\ live[n] # NoChk
        /\ NameOf(n) \notin Range(cur[p].listed)

\* C20: the manifest and the active store change only in the step after
\* the last turn of the loop, in which the manifest is written with version
\* 1, the store of the upgrading backend becomes the project-scoped one,
\* Upgrade returns success and no stack file is in the legacy location; a
\* failed write of the manifest changes neither.
C20_ManifestThenSwap ==
    [][ /\ (meta' # meta \/ store' # store) =>
              (\E q \in Procs :
                  /\ pc[q] = "upgrade_manifest"
                  /\ cur[q].listed = <<>>
                  /\ UpgradeReturns(q, "ok"))
        /\ \A p \in Procs :
              /\ UpgradeReturns(p, "ok") =>
                    /\ pc[p] = "upgrade_manifest"
                    /\ meta' = 1
                    /\ store'[p] = "project"
                    /\ \A s \in Stacks : live'[s] = NoChk
              /\ UpgradeReturns(p, "ManifestWriteError") =>
                    (meta' = meta /\ store' = store)
      ]_vars

\* An Upgrade of a legacy bucket has succeeded: every stack name has its
\* checkpoint in the project-scoped layout.
C20_Upgraded ==
    \E p \in Procs :
        /\ pc[p] = "idle"
        /\ ret[p] = [op |-> "Upgrade", r |-> "ok"]
        /\ meta = 1
        /\ store[p] = "project"
        /\ \A s \in Stacks : live[s] = NoChk
        /\ \A s \in Stacks : \E n \in ProjectRefs : NameOf(n) = s /\ live[n] # NoChk

\* ---- the store pointer, the manifest, lookups -------------------------------

\* C21: the active store of a constructed backend is written only while the
\* backend's mutex is held; in particular the swap at the end of Upgrade
\* happens under the mutex.
C21_SwapUnderGuard ==
    [][\A p \in Procs :
          (store[p] # "none" /\ store'[p] # store[p]) => mutex[p] = "locked"
      ]_vars

\* While an Upgrade of backend p stands right before the write of the
\* manifest and the swap, a reference has been parsed through the legacy
\* store on another goroutine, and nobody holds the mutex.
C21_ReadBesideUpgrade ==
    \E p \in Procs :
        /\ pc[p] = "upgrade_manifest"
        /\ store[p] = "legacy"
        /\ parsed[p] = "legacy"
        /\ mutex[p] = "unlocked"

\* C22: New gives the legacy store for a manifest of version 0, the
\* project-scoped store for version 1 and fails as unsupported, with no
\* backend, for any other version; and as long as only this backend upgrades,
\* its active store is the project-scoped one exactly when the manifest in
\* the bucket has version 1.
C22_ManifestDeterminesStore ==
    /\ [](\A p \in Procs :
            store[p] # "none" => (store[p] = "project" <=> meta = 1))
    /\ [][\A p \in Procs :
            (ret'[p] # ret[p] /\ ret'[p].op = "New") =>
               /\ (meta = 0 => store'[p] = "legacy" /\ ret'[p].r = "ok")
               /\ (meta = 1 => store'[p] = "project" /\ ret'[p].r = "ok")
               /\ (meta \notin {0, 1} =>
                      store'[p] = "none" /\ ret'[p].r = "Unsupported")
        ]_vars

\* An Upgrade has moved every legacy stack and then failed to write the
\* manifest: the manifest is at version 0 and the store is the legacy one.
C22_FailedManifestWrite ==
    \E p \in Procs :
        /\ pc[p] = "idle"
        /\ ret[p] = [op |-> "Upgrade", r |-> "ManifestWriteError"]
        /\ meta = 0
        /\ store[p] = "legacy"
        /\ \E n \in ProjectRefs : live[n] # NoChk

\* C24: GetStack with a valid reference gives no stack and no error when the
\* read of the checkpoint says NotFound, and hands on any other storage
\* error; so "no stack, no error" is returned only for a stack without a
\* checkpoint object, NotFound never reaches the caller, and the bucket is
\* left as it was.
C24_MissingCheckpointIsNoError ==
    [][\A p \in Procs : \A s \in Refs :
          GetStack(p, s) =>
             /\ GetStackResult(TRUE, "NotFound") = "nil"
             /\ GetStackResult(TRUE, "StorageError") = "StorageError"
             /\ ret'[p].r \in {"InvalidReference", "nil", "StorageError", "stack"}
             /\ (ret'[p].r = "nil" => live[s] = NoChk)
             /\ (ret'[p].r = "stack" => live[s] # NoChk)
             /\ UNCHANGED bucket
      ]_vars

\* GetStack was asked for a stack that has no checkpoint object (while
\* another stack has one) and returned no stack and no error.
C24_AbsentStackLookedUp ==
    \E p \in Procs :
        /\ ret[p] = [op |-> "GetStack", r |-> "nil"]
        /\ \E s \in Refs : live[s] = NoChk
        /\ \E s \in Refs : live[s] # NoChk

\* ---- name rendering ------------------------------------------------------------

\* C23: String() of a reference without project is its name; String() of a
\* reference (project, name) is the name alone when the backend has a
\* current project equal to the reference's, and organization/project/name
\* when it has none or another; FullyQualifiedName() keeps the project of a
\* project-scoped reference whatever the current project.
C23_NameRendering ==
    \A p \in Procs :
       LET r == rendered[p]
           current == currentProject[p]
       IN /\ r.fn = "String" =>
               /\ ProjectOf(r.ref) = 0 => r.out = <<NameOf(r.ref)>>
               /\ (ProjectOf(r.ref) # 0 /\ current = ProjectOf(r.ref))
                     => r.out = <<NameOf(r.ref)>>
               /\ (ProjectOf(r.ref) # 0 /\ current # ProjectOf(r.ref))
                     => r.out = <<"organization", ProjectOf(r.ref), NameOf(r.ref)>>
          /\ r.fn = "FullyQualifiedName" =>
               /\ ProjectOf(r.ref) = 0 => r.out = <<NameOf(r.ref)>>
               /\ ProjectOf(r.ref) # 0
                     => r.out = <<"organization", ProjectOf(r.ref), NameOf(r.ref)>>

\* Two backends have the project of a reference as their current project:
\* one has rendered the reference with String, as the name alone; the other
\* has rendered it with FullyQualifiedName, with the project.
C23_ElidedAndQualified ==
    \E p, q \in Procs : \E ref \in ProjectRefs :
        /\ currentProject[p] = ProjectOf(ref)
        /\ rendered[p] = [fn |-> "String", ref |-> ref, out |-> <<NameOf(ref)>>]
        /\ currentProject[q] = ProjectOf(ref)
        /\ rendered[q].fn = "FullyQualifiedName"
        /\ rendered[q].ref = ref
        /\ Len(rendered[q].out) = 3

\* ---- secrets ---------------------------------------------------------------------

\* C25: whenever getStackSecretsManager succeeds for a configuration, the
\* manager it returns is the caching wrapper around: the cloud manager when
\* SecretsProvider is set to something other than "default" and
\* "passphrase", whatever the salt; otherwise the prompting passphrase
\* manager when EncryptionSalt is set; otherwise the default manager.  When
\* it fails there is no manager.
C25_ResolutionOrder ==
    [][\A f \in ConfigFiles :
          GetStackSecretsManager(f) =>
             LET ps == configs[f]
                 cloud == ps.SecretsProvider \notin {"", "default", "passphrase"}
             IN /\ mgr'.err = "none" =>
                     /\ mgr'.sm.caching
                     /\ cloud => mgr'.sm.inner = "cloud"
                     /\ (~cloud /\ ps.EncryptionSalt # "") => mgr'.sm.inner = "passphrase"
                     /\ (~cloud /\ ps.EncryptionSalt = "") => mgr'.sm.inner = "default"
                /\ mgr'.err # "none" => mgr'.sm = NilManager
      ]_vars

\* A manager was resolved for a configuration that names a cloud key and
\* also carries a salt: it is the cached cloud manager.
C25_CloudDespiteSalt ==
    \E f \in ConfigFiles :
        /\ configs[f].SecretsProvider = "awskms://key"
        /\ configs[f].EncryptionSalt # ""
        /\ mgr = [fn |-> "getStackSecretsManager", file |-> f, err |-> "none",
                  sm |-> [caching |-> TRUE, inner |-> "cloud"]]

\* C26 as stated: after NewServiceSecretsManager has returned successfully
\* for a stack whose configuration is the file it was given, that file has
\* SecretsProvider, EncryptedKey and EncryptionSalt empty, so that a later
\* resolution from it takes the default branch; and a file is rewritten only
\* when one of the fields was set.
C26_SwitchClearsFields ==
    [][\A f \in ConfigFiles :
          (NewServiceSecretsManager(f) /\ mgr'.err = "none") =>
             /\ configs'[f] = EmptyInfo
             /\ ChooseManager(configs'[f]) = "default"
             /\ configs' # configs => configs[f] # EmptyInfo
      ]_vars

\* What holds of NewServiceSecretsManager: when the configuration file it
\* is given is the one derived from the stack name, that file has the three
\* fields empty after a successful return and is rewritten only when one of
\* them was set; a failed call rewrites nothing.
C26_SwitchClearsDefaultFile ==
    [][\A f \in ConfigFiles :
          NewServiceSecretsManager(f) =>
             /\ (mgr'.err = "none" /\ f = DefaultConfigFile) =>
                   /\ configs'[f] = EmptyInfo
                   /\ ChooseManager(configs'[f]) = "default"
                   /\ configs' # configs => configs[f] # EmptyInfo
             /\ mgr'.err # "none" => configs' = configs
      ]_vars

\* The switch to the service manager has succeeded through an explicitly
\* named configuration file that still carries a salt: a resolution from
\* that file takes the passphrase branch.
C26_SaltLeftBehind ==
    \E f \in ConfigFiles :
        /\ f # DefaultConfigFile
        /\ mgr.fn = "NewServiceSecretsManager"
        /\ mgr.file = f
        /\ mgr.err = "none"
        /\ configs[f].EncryptionSalt # ""
        /\ ChooseManager(configs[f]) = "passphrase"

\* A string is base64 in the standard padded encoding: a multiple of four
\* characters, all of them digits of the alphabet, except that the last one
\* or the last two may be padding.
ValidBase64(s) ==
    /\ Len(s) % 4 = 0
    /\ \A i \in 1..Len(s) :
          \/ IsDigit(s[i])
          \/ /\ s[i] = "="
             /\ i >= Len(s) - 1
             /\ s[Len(s)] = "="

\* C27: DecryptValue on a string that is not valid base64 returns an error
\* and no plaintext and has not called the service; BulkDecrypt on a list
\* with one string that is not valid base64 returns an error and no mapping
\* and has not called the service; and no call returns a result together
\* with an error.
C27_MalformedNeverPlaintext ==
    /\ decrypted.fn \in {"DecryptValue", "BulkDecrypt"} =>
          /\ (\E i \in 1..Len(decrypted.input) : ~ValidBase64(decrypted.input[i])) =>
                /\ decrypted.err = "CorruptInput"
                /\ Len(decrypted.out) = 0
                /\ decrypted.remote = 0
          /\ decrypted.err # "none" => Len(decrypted.out) = 0
          /\ decrypted.err = "CorruptInput" =>
                \E i \in 1..Len(decrypted.input) : ~ValidBase64(decrypted.input[i])

\* BulkDecrypt was handed a valid cipher string followed by a malformed
\* one, and has failed without calling the service.
C27_BulkWithOneMalformed ==
    /\ decrypted.fn = "BulkDecrypt"
    /\ Len(decrypted.input) = 2
    /\ ValidBase64(decrypted.input[1])
    /\ ~ValidBase64(decrypted.input[2])
    /\ decrypted.err = "CorruptInput"
    /\ decrypted.remote = 0

\* ---- the tasks of apply ----------------------------------------------------------

\* s is an initial part of t.
IsPrefix(s, t) == Len(s) <= Len(t) /\ SubSeq(t, 1, Len(s)) = s

\* C28: when apply has returned after having started an update, the display
\* task has signalled done and has exited, the forwarding task has closed
\* eventsDone and has exited, and it holds no event; from then on the
\* tasks, the channels and the streams stay as they are.
C28_NoTaskOutlivesApply ==
    /\ []((task.apply = "returned" /\ task.started) =>
             /\ task.display = "exited"
             /\ chans.displayDone = "closed"
             /\ task.forward = "exited"
             /\ chans.eventsDone = "closed"
             /\ task.held = "none")
    /\ [][task.apply = "returned" =>
             (task' = task /\ chans' = chans /\ stream' = stream)]_vars

\* An apply with a channel of the caller has returned after an engine run
\* that emitted events.
C28_ReturnedAfterEvents ==
    /\ task.apply = "returned"
    /\ task.started
    /\ scope.events
    /\ Len(stream.emitted) > 1
    /\ stream.heard = stream.emitted

\* C29: no channel operation panics (no send on a closed channel, no close
\* of a closed channel); engineEvents is closed only once the engine has
\* returned, having sent its final event; displayEvents is closed only once
\* the forwarding task has exited; each is closed in one step of apply's
\* thread, and both are closed when apply returns.
C29_ChannelDiscipline ==
    /\ [](fault = {})
    /\ [](chans.engineEvents = "closed" =>
             /\ task.apply \in {"wait_events", "close_display", "returned"}
             /\ stream.emitted # <<>>
             /\ stream.emitted[Len(stream.emitted)] = FinalEvent)
    /\ [](chans.displayEvents = "closed" => task.forward = "exited")
    /\ []((task.apply = "returned" /\ task.started) =>
             (chans.engineEvents = "closed" /\ chans.displayEvents = "closed"))
    /\ [][ /\ (chans.engineEvents # "closed" /\ chans'.engineEvents = "closed")
              => task.apply = "close_engine"
           /\ (chans.displayEvents # "closed" /\ chans'.displayEvents = "closed")
              => task.apply = "close_display"
           /\ \A ch \in DOMAIN chans : chans[ch] = "closed" => chans'[ch] = "closed"
         ]_vars

\* The engine's channel is closed while the forwarding task still has the
\* final event to hand to the caller.
C29_ClosedWhileForwarding ==
    /\ chans.engineEvents = "closed"
    /\ task.forward = "to_events"
    /\ task.held = FinalEvent
    /\ chans.displayEvents = "open"

\* C30: under fair scheduling apply eventually returns, also when the
\* cancellation signal is closed while events are in flight; the display
\* has by then received every event the engine emitted, and so has the
\* caller's listener when there is one, in the order of emission, each
\* event going to the display before it goes to the listener.
C30_ApplyReturns ==
    /\ <>(task.apply = "returned")
    /\ [](/\ IsPrefix(stream.shown, stream.emitted)
          /\ IsPrefix(stream.heard, stream.shown)
          /\ (~scope.events => stream.heard = <<>>))
    /\ []((task.apply = "returned" /\ task.started) =>
             /\ stream.shown = stream.emitted
             /\ (scope.events => stream.heard = stream.emitted))

\* The cancellation signal was closed during an apply whose engine emitted
\* MaxEvents events and the final one; apply has returned and the caller's
\* listener has heard them all.
C30_CancelledInFlight ==
    /\ task.apply = "returned"
    /\ scope.cancelled
    /\ scope.events
    /\ Len(stream.emitted) = MaxEvents + 1
    /\ stream.heard = stream.emitted

\* A rename that has done all its work without an error and stands before
\* its deferred Unlock.
RenameSucceeding(p) ==
    /\ pc[p] = "unlock"
    /\ cur[p].op = "RenameStack"
    /\ cur[p].res = "ok"

\* C31: RenameStack never overwrites an existing destination under
\* concurrency: of two renames from two different source stacks to the same
\* destination T, each holding only its own source's lock, at most one
\* succeeds, and the checkpoint written at T is not replaced (T, absent at
\* the start and never removed, is written at most once).
C31_OneRenamePerDestination ==
    /\ \A p \in Workers, q \in Workers :
         (/\ RenameSucceeding(p)
          /\ RenameSucceeding(q)
          /\ cur[p].stack # cur[q].stack)
         => cur[p].dst # cur[q].dst
    /\ \A t \in Destinations : Len(saved[t]) <= 1

\* Two renames from different sources have both succeeded at the same
\* destination; the checkpoint the first wrote there has been replaced by
\* the second's and is in no backup.
C31_BothRenamesSucceed ==
    \E p \in Workers, q \in Workers, t \in Destinations :
        /\ RenameSucceeding(p)
        /\ RenameSucceeding(q)
        /\ cur[p].stack # cur[q].stack
        /\ cur[p].dst = t
        /\ cur[q].dst = t
        /\ Len(saved[t]) = 2
        /\ live[t] = saved[t][2]
        /\ live[t] # saved[t][1]
        /\ saved[t][1] \notin Range(backups[t])

\* C32: CreateStack never replaces an existing stack: for a reference whose
\* checkpoint object exists, also when reading it fails with an error other
\* than NotFound, CreateStack fails after its read and no step of it changes
\* the live checkpoint; the checkpoint it writes where none exists has an
\* empty snapshot.
C32_CreateNeverReplaces ==
    [][\A p \in Procs :
         /\ (CreateStackGet(p) /\ live[cur[p].stack] # NoChk)
            => (pc'[p] = "unlock" /\ cur'[p].res # "ok")
         /\ (SaveWrite(p) /\ cur[p].op = "CreateStack")
            => \/ live' = live
               \/ /\ live[cur[p].stack] = NoChk
                  /\ live'[cur[p].stack].res = 0]_vars

\* CreateStack is about to return successfully: the checkpoint of a deployed
\* stack with resources has been replaced by its empty checkpoint.
C32_DeployedStackReplaced ==
    \E p \in Procs :
        /\ pc[p] = "create_done"
        /\ cur[p].op = "CreateStack"
        /\ ~cur[p].wErr
        /\ Len(saved[cur[p].stack]) >= 2
        /\ saved[cur[p].stack][Len(saved[cur[p].stack]) - 1].res > 0
        /\ live[cur[p].stack] = cur[p].chk
        /\ live[cur[p].stack].res = 0

\* What does hold of CreateStack: when the stack loads it fails with
\* StackAlreadyExists and its steps write nothing; otherwise the checkpoint
\* it writes has an empty snapshot.
C32_CreateRefusesLoadedStack ==
    [][\A p \in Procs :
         /\ (CreateStackGet(p) /\ pc'[p] = "unlock")
            => (/\ live[cur[p].stack] # NoChk
                /\ cur'[p].res = "AlreadyExists"
                /\ live' = live)
         /\ (SaveWrite(p) /\ cur[p].op = "CreateStack" /\ live' # live)
            => live'[cur[p].stack].res = 0]_vars

====
